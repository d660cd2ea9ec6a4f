SPECIFICATION FairSpec
CONSTANTS
    plugin = plugin
    cli = cli
    fails = fails
    Clients = {plugin, cli}
    Plugins = {plugin}
    Reports = {fails}
    Separated = {}
    KeyOf <- MCKeyOf
    Runs <- MCRuns
    MaxDeaths = 1
    MaxOrphans = 1
    MaxQueue = 2
INVARIANTS
    TypeOK
    JudgedOnce
    NotTwiceARound
PROPERTIES
    NothingDropped
    QueuedIsHeard
