\* Two payments, two webhook requests at a time that race for nonces, two faults, and
\* a seed that may be missing or belong to an account the runtime does not accept.  A
\* payment may be for an address that no account has.
SPECIFICATION FairStakeSpec

CONSTANTS
    ann = ann
    pot = pot
    none = none
    gateway = gateway
    other = other
    s1 = s1
    s2 = s2
    r1 = r1
    r2 = r2
    typo = typo
    Account = {ann}
    Undecodable = {typo}
    Pot = pot
    None = none
    ExistentialDeposit = 1
    Genesis <- NoBalances
    MaxMinted = 99999
    Contributions = {}
    Transfers = {}
    Mints = {}
    MaxGrants = 0
    Session = {s1, s2}
    Slot = {r1, r2}
    Signer = {gateway, other}
    Gateway = gateway
    CardAmounts = {2000}
    MinMills = 1000
    MaxMills = 10000000
    MaxRefused = 2
    MaxFaults = 2

INVARIANTS
    MintsArePaid
    ExtraMintsNeedFaults
    AnsweredIsMinted
PROPERTY PaidGetMinted
\* When everything is paid and answered the gateway waits for customers.
CHECK_DEADLOCK FALSE
