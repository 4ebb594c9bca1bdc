SPECIFICATION FairSpec
CONSTANTS
    small = small  big = big  alias = alias  Dense = Dense  Moe = Moe  t1 = t1  t2 = t2
    Thousandths <- MCThousandths
    GroupedTokens = 4
    PlainTokens = 1
    MinReserve = 1
    ReservePercent = 15
    Supported = {Dense, Moe}
    Swarm <- MCSwarm
    DefaultModel = small
    NoSwarm = NoSwarm  NoName = NoName  NoTokens = NoTokens
    Terminals = {t1, t2}
    MaxServers = 2
    Commands <- MCCommands
    Config <- MCConfig
    Mentions <- MCMentions
    Total = 58
    Checks = 2
    Nobody = Nobody  TheInit = TheInit  NoBaseline = NoBaseline  NoCommand = NoCommand
INVARIANTS TypeOK LeftoversStopped PlanHolds VerdictIsRight
PROPERTIES LiveLeftAlone VerdictComes

