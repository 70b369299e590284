SPECIFICATION Spec
CONSTANTS
    Managers = {audio, video, subtitle}
    Parents = {bin1, bin2}
    Null = Null
    MaxClients = 2
INVARIANTS
    TypeOK
    RefCountExact
    OneClientPerParent
    ControllerIsUser
    StoppedIsUnused
PROPERTY
    OperationsReturn
