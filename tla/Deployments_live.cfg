SPECIFICATION FairSpec
CONSTANTS
    Deployments = {1}
    Commits <- MCCommits
    Ways <- MCAnyWay
    IdlePolls = TRUE
    MaxFaults = 2
PROPERTIES
    DeploymentSettles
