SPECIFICATION MCSpec
CONSTANTS
    Namespaces <- MCNamespaces
    Kinds <- MCKinds
    Clusters <- MCClusters
    Failures = {{}, {"pods"}}
INVARIANTS
    ActsOnShown
    MetricsOfSelected
    ScreenIsFrame
CHECK_DEADLOCK FALSE
