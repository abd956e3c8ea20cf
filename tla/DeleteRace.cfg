SPECIFICATION Spec
CONSTANTS
    Drives <- MCDrives
    LowerOf <- MCLowerOf
    WindowsDir <- MCWindowsDir
    WorkingDir <- MCWorkingDir
    ProfileFolders <- MCProfileFolders
    Volumes <- MCVolumes
    Files <- MCFiles
    KnownFolders <- MCKnownFolders
    UserProfile <- MCProfile
    Places <- MCPlaces
    LinkTo <- MCLinkTo
    HostPaths <- MCHostPaths
    ContainerPaths <- MCContainerPaths
    SystemFolders <- MCSystemFolders
    Root <- MCRoot
    Targets <- MCTargets
    Nil = Nil
INVARIANTS
    DeletesOnlyBelowWorkspace
CHECK_DEADLOCK FALSE
