\* One payment, whose address may have been typed wrong, and no other fault.
SPECIFICATION FairStakeSpec

CONSTANTS
    ann = ann
    pot = pot
    none = none
    gateway = gateway
    other = other
    s1 = s1
    r1 = r1
    typo = typo
    Account = {ann}
    Undecodable = {typo}
    Pot = pot
    None = none
    ExistentialDeposit = 1
    Genesis <- NoBalances
    MaxMinted = 99999
    Contributions = {}
    Transfers = {}
    Mints = {}
    MaxGrants = 0
    Session = {s1}
    Slot = {r1}
    Signer = {gateway, other}
    Gateway = gateway
    CardAmounts = {2000}
    MinMills = 1000
    MaxMills = 10000000
    MaxRefused = 1
    MaxFaults = 0

PROPERTY CheckoutsAreMinted
\* When everything is paid and answered the gateway waits for customers.
CHECK_DEADLOCK FALSE
