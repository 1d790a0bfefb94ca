------------------------------ MODULE ApiKeys ------------------------------
(* API keys: creation, revocation, rotation and the accounting of their use *)
(* (internal/auth/api_key.go over internal/storage/postgres/api_key.go).    *)
(* A rotation reads the key, builds its replacement and commits it in a     *)
(* transaction that reads the key again under a row lock.  An               *)
(* authentication reads the key and then writes last_used_at, unless this   *)
(* replica wrote it less than an interval ago.  A secret stands for its     *)
(* key's id: hashing and parsing are left out, and so are the tenant and    *)
(* the role, which Authorization models.                                    *)
EXTENDS Integers, FiniteSets

CONSTANTS Key, KeyReplica, KeyCall, KeyExpiry, MaxKeyTime, LastUsedInterval, MaxThrottleEntries

NoKey == "no key"  \* the empty id

ASSUME KeyAssumption ==
    /\ NoKey \notin Key
    /\ KeyExpiry \subseteq 0..(MaxKeyTime + 1)
    /\ MaxKeyTime \in Nat /\ LastUsedInterval \in Nat /\ MaxThrottleEntries \in Nat \ {0}

VARIABLES
    apiKeys,     \* [Key -> row], the table api_keys
    keyClock,
    keyCall,     \* [KeyCall -> the request in progress]
    attempts     \* [KeyReplica -> [Key -> time or Never]]: lastUsedAttempts

keyVars == <<apiKeys, keyClock, keyCall, attempts>>

Never == -1

\* A row of the table, as Create makes it.
NewKey(expires) ==
    [created |-> TRUE, expires |-> expires, revoked |-> FALSE, lastUsed |-> Never, from |-> NoKey]
NoRow == [NewKey(0) EXCEPT !.created = FALSE]

IdleCall == [step |-> "idle"]

KeysInit ==
    /\ apiKeys = [k \in Key |-> NoRow]
    /\ keyClock = 0
    /\ keyCall = [c \in KeyCall |-> IdleCall]
    /\ attempts = [r \in KeyReplica |-> [k \in Key |-> Never]]

KeyTimePasses ==
    /\ keyClock < MaxKeyTime
    /\ keyClock' = keyClock + 1
    /\ UNCHANGED <<apiKeys, keyCall, attempts>>

Usable(row, now) == row.created /\ ~row.revoked /\ row.expires > now

\* The expiry must lie in the future; MaxKeyTime + 1 stands for none.
CreateKey(k, expires) ==
    /\ ~apiKeys[k].created
    /\ expires > keyClock
    /\ apiKeys' = [apiKeys EXCEPT ![k] = NewKey(expires)]
    /\ UNCHANGED <<keyClock, keyCall, attempts>>

RevokeKey(k) ==
    /\ apiKeys[k].created
    /\ apiKeys' = [apiKeys EXCEPT ![k].revoked = TRUE]
    /\ UNCHANGED <<keyClock, keyCall, attempts>>

\* Rotate reads the key and the clock and prepares the replacement, which
\* keeps the scope and the expiry of its source.
Replacement(source) == [NewKey(apiKeys[source].expires) EXCEPT !.from = source]

BeginRotation(c, source, new) ==
    /\ keyCall[c] = IdleCall
    /\ Usable(apiKeys[source], keyClock)
    /\ ~apiKeys[new].created
    /\ \A d \in KeyCall : keyCall[d].step = "rotate" => keyCall[d].new # new
    /\ keyCall' = [keyCall EXCEPT ![c] = [step |-> "rotate", source |-> source, new |-> new,
                                          now |-> keyClock, row |-> Replacement(source)]]
    /\ UNCHANGED <<apiKeys, keyClock, attempts>>

\* Mutant: the transaction trusts what the service read.
RotatesUnlocked(source, now) == TRUE

\* What the transaction checks on the locked row.
Rotates(source, now) == Usable(source, now)

\* One transaction: the replacement is inserted and the source revoked, or
\* the caller gets "not found"; one that fails is rolled back.
RotateAPIKey(c, fails) ==
    LET call == keyCall[c]
    IN  /\ call.step = "rotate"
        /\ apiKeys' = IF ~fails /\ Rotates(apiKeys[call.source], call.now)
                      THEN [apiKeys EXCEPT ![call.new] = call.row, ![call.source].revoked = TRUE]
                      ELSE apiKeys
        /\ keyCall' = [keyCall EXCEPT ![c] = IdleCall]
        /\ UNCHANGED <<keyClock, attempts>>

\* A create and a rotation never share a fresh id.
FreshKey(k) == \A c \in KeyCall : keyCall[c].step = "rotate" => keyCall[c].new # k

\* The key is read, and accepted at the time read after it.
Authenticate(c, r, k) ==
    /\ keyCall[c] = IdleCall
    /\ Usable(apiKeys[k], keyClock)
    /\ keyCall' = [keyCall EXCEPT ![c] = [step |-> "throttle", replica |-> r, key |-> k, now |-> keyClock]]
    /\ UNCHANGED <<apiKeys, keyClock, attempts>>

Throttled(last, now) == last # Never /\ LastUsedInterval > 0 /\ now < last + LastUsedInterval

\* A full map is emptied before another key is added.
Attempted(map, k, now) ==
    LET full == map[k] = Never /\ Cardinality({x \in Key : map[x] # Never}) >= MaxThrottleEntries
    IN  [x \in Key |-> IF x = k THEN now ELSE IF full THEN Never ELSE map[x]]

\* Under lastUsedMu: the attempt is noted before the row is written.
touchLastUsed(c) ==
    LET call == keyCall[c]
        map == attempts[call.replica]
    IN  /\ call.step = "throttle"
        /\ IF Throttled(map[call.key], call.now)
           THEN keyCall' = [keyCall EXCEPT ![c] = IdleCall] /\ UNCHANGED attempts
           ELSE /\ attempts' = [attempts EXCEPT ![call.replica] = Attempted(@, call.key, call.now)]
                /\ keyCall' = [keyCall EXCEPT ![c].step = "touch"]
        /\ UNCHANGED <<apiKeys, keyClock>>

\* WHERE last_used_at IS NULL OR last_used_at <= usedAt - interval
Touches(last, now) == last = Never \/ last <= now - LastUsedInterval

\* The write may fail: the authentication has already succeeded.
TouchAPIKeyLastUsed(c, fails) ==
    LET call == keyCall[c]
        k == call.key
    IN  /\ call.step = "touch"
        /\ apiKeys' = IF ~fails /\ Touches(apiKeys[k].lastUsed, call.now)
                      THEN [apiKeys EXCEPT ![k].lastUsed = call.now]
                      ELSE apiKeys
        /\ keyCall' = [keyCall EXCEPT ![c] = IdleCall]
        /\ UNCHANGED <<keyClock, attempts>>

\* The routes of internal/http/api_keys.go, and the middleware that
\* authenticates every request.
KeysNext ==
    \/ KeyTimePasses
    \/ \E k \in Key : RevokeKey(k)
    \/ \E k \in Key, e \in KeyExpiry : FreshKey(k) /\ CreateKey(k, e)
    \/ \E c \in KeyCall :
         \/ touchLastUsed(c)
         \/ \E fails \in BOOLEAN : RotateAPIKey(c, fails) \/ TouchAPIKeyLastUsed(c, fails)
         \/ \E k, n \in Key : BeginRotation(c, k, n)
         \/ \E k \in Key, r \in KeyReplica : Authenticate(c, r, k)

KeysSpec == KeysInit /\ [][KeysNext]_keyVars

-----------------------------------------------------------------------------

\* No two keys replace the same key, so a key and its replacements form a
\* line, and at most the last of the line is usable: two callers that rotate
\* one key at the same time do not both get a working replacement
\* ("A row lock prevents two callers from successfully rotating the same
\* key", internal/storage/postgres/api_key.go:65).
OneReplacement ==
    \A k, l \in Key :
      /\ apiKeys[k].from # NoKey => apiKeys[apiKeys[k].from].revoked
      /\ (k # l /\ apiKeys[k].from # NoKey) => apiKeys[l].from # apiKeys[k].from

\* A revoked key gets no replacement any more, even when the revocation
\* comes between the two reads of a rotation.
RevokedHasNoHeir ==
    [][\A k, s \in Key : apiKeys[k].from # s /\ apiKeys'[k].from = s => ~apiKeys[s].revoked]_keyVars

\* The recorded use of a key moves forward, by the write interval at least,
\* though replicas throttle on maps of their own that are emptied when full,
\* and write with clocks they read earlier.
LastUsedAdvances ==
    [][\A k \in Key :
         (apiKeys[k].lastUsed # Never /\ apiKeys'[k].lastUsed # apiKeys[k].lastUsed)
           => apiKeys'[k].lastUsed >= apiKeys[k].lastUsed + LastUsedInterval]_keyVars

\* A key has one heir, given while it was valid, and its recorded use goes
\* forward, under rotations, revocations and replicas that overlap.
KeysKeepOrder == RevokedHasNoHeir /\ LastUsedAdvances /\ []OneReplacement
=============================================================================
