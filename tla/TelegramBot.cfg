SPECIFICATION BotSpec
CONSTANTS
    Workspaces = {shop, cafe}
    Tokens = {bot1, bot2}
    Handlers = {h1, h2}
    MaxSecrets = 3
    MaxChecks = 2
    MaxBotFaults = 1
    ErrorAfter = 2
    None = None
SYMMETRY Symmetry
INVARIANTS
    BotInv
    OneWorkspacePerBot
    WebhooksMatchRows
