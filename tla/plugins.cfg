CONSTANTS
    Command = {"docker", "ws", "extensions"}
    Alias = {"ws"}
    Verb = {"start", "stop"}
    Hidden = {"extensions"}
    NoName = NoName
    Unknown = Unknown
    Point <- PluginSystemVersion
    Versions <- Lower
SPECIFICATION Spec
INVARIANTS
    TypeOK
    SelectedRuns
    HelpIsShown
    ListIsComplete
    CompatibleOnly
PROPERTY AnswersAsPromised
