CONSTANTS
    alice = alice
    bob = bob
    r1 = r1
    r2 = r2
    None = None
    Agents = {alice, bob}
    Relays = {r1, r2}
    Envelopes = {m1}
    InboxRelays <- Shared
    Source <- FromAlice
    Dest <- ToBob
    MaxRetries = 1
    MaxEvents = 6
    Faults = {"publish", "subscribe", "corrupt", "late", "stop", "crash"}
    MaxFaults = 1
SPECIFICATION Spec
INVARIANTS TypeOK ConfirmedHanded HandledOnce AttemptsBounded
PROPERTIES MessageArrives OutboxDrains
