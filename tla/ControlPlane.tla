----------------------------- MODULE ControlPlane -----------------------------
(***************************************************************************)
(* The operator control plane (controls.py) and the engine's cache of it   *)
(* (refresh_overrides).  Operators hold only the store and write keys of   *)
(* it; the trading process reads them when it next refreshes.  Over a      *)
(* store without transactions both a write and a read of several keys let  *)
(* the other side run between two keys.                                    *)
(*                                                                         *)
(* Time is the wall clock, in units of a fraction of the longest bypass.   *)
(***************************************************************************)
EXTENDS StateStore

CONSTANTS
    Operators,      \* consoles and command lines
    Actors,         \* who may authorise; the calls may also pass Blank
    Reasons,        \* why a bypass is authorised; the calls may also pass Blank
    Cleared,        \* the reason clear_loss_limit_bypass records
    Refreshers,     \* coroutines that call refresh_overrides
    Durations,      \* bypass durations the operators ask for
    MaxBypass,      \* MAX_BYPASS_DURATION_MILLIS
    Overrides,      \* caps the operators set; Absent stands for None
    Fragile,        \* <<field, text>> pairs: what a stored field may become
                    \* when it is lost (Absent) or corrupted (Damaged)
    DamageBudget,   \* how many fields are, over a behaviour
    MaxTime,        \* bound: the clock runs over 0 .. MaxTime
    MaxCalls        \* bound: operator calls over a behaviour

\* The keys of a bypass, in the order set_many is given them.
BypassOrder == <<"bypass", "expires_at", "actor", "reason", "set_at">>
BypassKeys == {"bypass", "expires_at", "actor", "reason", "set_at"}
Caps == {"max_order_notional", "max_order_quantity"}
Key == BypassKeys \cup Caps

\* The keys refresh_overrides reads, in the order it names them.
OverrideOrder == <<"bypass", "expires_at", "max_order_notional", "max_order_quantity">>
OverrideKeys == {"bypass", "expires_at", "max_order_notional", "max_order_quantity"}

Time == 0 .. MaxTime

ASSUME ControlPlaneAssumption ==
    /\ Durations \subseteq Int
    /\ MaxBypass \in Nat \ {0}
    /\ Overrides \subseteq Float \cup {Absent}
    /\ Blank \notin Actors \cup Reasons
    /\ Fragile \subseteq Key \X {Absent, Damaged}
    /\ DamageBudget \in Nat /\ MaxTime \in Nat /\ MaxCalls \in Nat

VARIABLES
    now,        \* the wall clock
    store,      \* the text of each key in the store
    op,         \* the call each operator has in progress
    texts,      \* what that call writes
    left,       \* the keys it has still to write
    cache,      \* the overrides the engine acts on
    unread,     \* the keys each refresh has still to read
    raw,        \* what it has read so far
    reading,    \* the refreshes in progress
    calls,      \* bound bookkeeping: operator calls so far
    damaged,    \* bound bookkeeping: fields damaged so far
    \* History, read by no action of the program.
    grants,     \* the bypasses operators have asked for
    asked,      \* the caps operators have asked for
    current,    \* refreshes since whose beginning no key has changed
    inForce,    \* the last refresh applied is such a one, and no key has changed since
    unopposed,  \* clears no bypass has overlapped so far
    rearmed     \* such a clear has completed, and no bypass has begun since

operators == <<op, texts, left>>
refresh == <<unread, raw, reading>>
ledger == <<grants, asked, unopposed, rearmed>>
vars == <<now, store, operators, cache, refresh, calls, damaged, ledger, current, inForce>>

-------------------------------------------------------------------------------
(* What the engine makes of the store *)

\* What an engine that has not refreshed yet acts on.
Defaults ==
    [bypass |-> FALSE, expires_at |-> Absent,
     max_order_notional |-> Absent, max_order_quantity |-> Absent]

\* Mutant of Decoded: both caps out of one key.
DecodedFromOneKey(t) ==
    [bypass |-> DecodeBool(t["bypass"]),
     expires_at |-> DecodeFloatOr(t["expires_at"], Absent),
     max_order_notional |-> DecodePositiveFloat(t["max_order_notional"]),
     max_order_quantity |-> DecodePositiveFloat(t["max_order_notional"])]

\* The overrides refresh_overrides reads out of these texts.
Decoded(t) ==
    [bypass |-> DecodeBool(t["bypass"]),
     expires_at |-> DecodeFloatOr(t["expires_at"], Absent),
     max_order_notional |-> DecodePositiveFloat(t["max_order_notional"]),
     max_order_quantity |-> DecodePositiveFloat(t["max_order_quantity"])]

\* Mutant of ActiveAt: a flag without an expiry suspends the limit.
ActiveWithoutExpiry(enabled, expires, t) == enabled /\ (expires \in Int => t < expires)

\* _bypass_active, and active_at of the record a console reads: a flag
\* without an expiry is inactive.
ActiveAt(enabled, expires, t) == enabled /\ expires \in Int /\ t < expires

Suspended == ActiveAt(cache.bypass, cache.expires_at, now)

\* read_loss_limit_bypass(...).active_at(now).
RecordActive ==
    ActiveAt(DecodeBool(store["bypass"]), DecodeFloatOr(store["expires_at"], Absent), now)

\* _encode_override.
EncodeOverride(value) ==
    IF value = Absent \/ (value \in Int /\ value <= 0) THEN Blank ELSE EncodeFloat(value)

-------------------------------------------------------------------------------
(* The operators *)

\* The synchronous part of an operator's call.
Call(o, name, keys, by) ==
    /\ op[o] = "idle"
    /\ calls < MaxCalls
    /\ op' = [op EXCEPT ![o] = name]
    /\ texts' = [texts EXCEPT ![o] = Overwritten(NoRows(Key), keys, by)]
    /\ left' = [left EXCEPT ![o] = keys]
    /\ calls' = calls + 1
    /\ UNCHANGED <<now, store, cache, refresh, damaged, current, inForce>>

\* The record a bypass or a clear writes.
Record(enabled, expires, actor, reason) ==
    [k \in BypassKeys |->
        CASE k = "bypass" -> EncodeBool(enabled)
          [] k = "expires_at" -> expires
          [] k = "actor" -> actor
          [] k = "reason" -> reason
          [] k = "set_at" -> EncodeFloat(now)]

\* Mutant of BypassLossLimit: any positive duration.
BypassLossLimitUnbounded(o, duration, actor, reason) ==
    /\ 0 < duration
    /\ actor # Blank /\ reason # Blank
    /\ now + duration <= MaxTime
    /\ Call(o, "bypass_loss_limit", BypassKeys,
            Record(TRUE, EncodeFloat(now + duration), actor, reason))
    /\ grants' = grants \cup
           {[at |-> now, expires |-> now + duration, actor |-> actor, reason |-> reason]}
    /\ unopposed' = {}
    /\ rearmed' = FALSE
    /\ UNCHANGED asked

\* Bypasses expire within the clock's bound (bound: now + duration).
BypassLossLimit(o, duration, actor, reason) ==
    /\ 0 < duration /\ duration <= MaxBypass
    /\ actor # Blank /\ reason # Blank
    /\ now + duration <= MaxTime
    /\ Call(o, "bypass_loss_limit", BypassKeys,
            Record(TRUE, EncodeFloat(now + duration), actor, reason))
    /\ grants' = grants \cup
           {[at |-> now, expires |-> now + duration, actor |-> actor, reason |-> reason]}
    /\ unopposed' = {}
    /\ rearmed' = FALSE
    /\ UNCHANGED asked

ClearLossLimitBypass(o, actor) ==
    /\ actor # Blank
    /\ Call(o, "clear_loss_limit_bypass", BypassKeys, Record(FALSE, Blank, actor, Cleared))
    /\ unopposed' = IF \A p \in Operators : op[p] # "bypass_loss_limit"
                    THEN unopposed \cup {o}
                    ELSE unopposed
    /\ UNCHANGED <<grants, asked, rearmed>>

\* set_runtime_max_order_notional and set_runtime_max_order_quantity.
SetRuntimeMaxOrder(o, cap, value) ==
    /\ Call(o, "set_runtime_max_order", {cap}, [k \in {cap} |-> EncodeOverride(value)])
    /\ asked' = asked \cup {<<cap, value>>}
    /\ UNCHANGED <<grants, unopposed, rearmed>>

\* History: a key has changed, so what was read or applied before is old.
Changed ==
    /\ current' = {}
    /\ inForce' = FALSE

\* set or set_many commits the next keys; after the last the call returns.
StoreWrite(o) ==
    /\ left[o] # {}
    /\ \E batch \in IF left[o] \subseteq BypassKeys
                    THEN Batches(BypassOrder, left[o])
                    ELSE {left[o]} :
        /\ store' = Overwritten(store, batch, texts[o])
        /\ left' = [left EXCEPT ![o] = @ \ batch]
        /\ IF batch = left[o]
           THEN /\ op' = [op EXCEPT ![o] = "idle"]
                /\ texts' = [texts EXCEPT ![o] = NoRows(Key)]
                /\ rearmed' = (rearmed \/ o \in unopposed)
                /\ unopposed' = unopposed \ {o}
           ELSE UNCHANGED <<op, texts, rearmed, unopposed>>
    /\ Changed
    /\ UNCHANGED <<now, cache, refresh, calls, damaged, grants, asked>>

\* The console dies, or the store raises, with some keys unwritten.
OperatorFails(o) ==
    /\ left[o] # {}
    /\ op' = [op EXCEPT ![o] = "idle"]
    /\ texts' = [texts EXCEPT ![o] = NoRows(Key)]
    /\ left' = [left EXCEPT ![o] = {}]
    /\ unopposed' = unopposed \ {o}
    /\ UNCHANGED <<now, store, cache, refresh, calls, damaged, grants, asked,
                   rearmed, current, inForce>>

-------------------------------------------------------------------------------
(* The trading process *)

RefreshOverrides(r) ==
    /\ r \notin reading
    /\ reading' = reading \cup {r}
    /\ unread' = [unread EXCEPT ![r] = OverrideKeys]
    /\ current' = current \cup {r}
    /\ UNCHANGED <<now, store, operators, cache, raw, calls, damaged, ledger, inForce>>

\* get_many reads the next keys.
RefreshRead(r) ==
    /\ unread[r] # {}
    /\ \E batch \in Batches(OverrideOrder, unread[r]) :
        /\ raw' = [raw EXCEPT ![r] = Overwritten(@, batch, store)]
        /\ unread' = [unread EXCEPT ![r] = @ \ batch]
    /\ UNCHANGED <<now, store, operators, cache, reading, calls, damaged, ledger,
                   current, inForce>>

\* Mutants of RefreshApply: a cap that reads as unset leaves the old one in
\* force; a bypass that has not lapsed is left alone.
RefreshApplySticky(r) ==
    /\ r \in reading
    /\ unread[r] = {}
    /\ cache' = [x \in DOMAIN cache |->
           IF x \in Caps /\ Decoded(raw[r])[x] = Absent THEN cache[x] ELSE Decoded(raw[r])[x]]
    /\ reading' = reading \ {r}
    /\ raw' = [raw EXCEPT ![r] = NoRows(OverrideKeys)]
    /\ inForce' = (r \in current)
    /\ current' = current \ {r}
    /\ UNCHANGED <<now, store, operators, unread, calls, damaged, ledger>>

RefreshApplyUnlessSuspended(r) ==
    /\ r \in reading
    /\ unread[r] = {}
    /\ cache' = IF Suspended THEN cache ELSE Decoded(raw[r])
    /\ reading' = reading \ {r}
    /\ raw' = [raw EXCEPT ![r] = NoRows(OverrideKeys)]
    /\ inForce' = (r \in current)
    /\ current' = current \ {r}
    /\ UNCHANGED <<now, store, operators, unread, calls, damaged, ledger>>

\* The rest of refresh_overrides, after its await.
RefreshApply(r) ==
    /\ r \in reading
    /\ unread[r] = {}
    /\ cache' = Decoded(raw[r])
    /\ reading' = reading \ {r}
    /\ raw' = [raw EXCEPT ![r] = NoRows(OverrideKeys)]
    /\ inForce' = (r \in current)
    /\ current' = current \ {r}
    /\ UNCHANGED <<now, store, operators, unread, calls, damaged, ledger>>

\* A new process acts on no override until it refreshes.
EngineRestart ==
    /\ cache' = Defaults
    /\ reading' = {}
    /\ unread' = [r \in Refreshers |-> {}]
    /\ raw' = [r \in Refreshers |-> NoRows(OverrideKeys)]
    /\ inForce' = FALSE
    /\ current' = {}
    /\ UNCHANGED <<now, store, operators, calls, damaged, ledger>>

-------------------------------------------------------------------------------
(* The environment *)

\* A stored field is lost or corrupted.
DamageKey ==
    /\ damaged < DamageBudget
    /\ \E damage \in Fragile :
        /\ store[damage[1]] # Absent
        /\ store' = [store EXCEPT ![damage[1]] = damage[2]]
    /\ damaged' = damaged + 1
    /\ Changed
    /\ UNCHANGED <<now, operators, cache, refresh, calls, ledger>>

Tick ==
    /\ now < MaxTime
    /\ now' = now + 1
    /\ UNCHANGED <<store, operators, cache, refresh, calls, damaged, ledger,
                   current, inForce>>

-------------------------------------------------------------------------------
Init ==
    /\ now = 0
    /\ store = NoRows(Key)
    /\ op = [o \in Operators |-> "idle"]
    /\ texts = [o \in Operators |-> NoRows(Key)]
    /\ left = [o \in Operators |-> {}]
    /\ cache = Defaults
    /\ unread = [r \in Refreshers |-> {}]
    /\ raw = [r \in Refreshers |-> NoRows(OverrideKeys)]
    /\ reading = {}
    /\ calls = 0 /\ damaged = 0
    /\ grants = {} /\ asked = {}
    /\ current = {} /\ inForce = FALSE
    /\ unopposed = {} /\ rearmed = TRUE

OperatorNext(o) ==
    \/ \E duration \in Durations, actor \in Actors \cup {Blank},
          reason \in Reasons \cup {Blank} : BypassLossLimit(o, duration, actor, reason)
    \/ \E actor \in Actors \cup {Blank} : ClearLossLimitBypass(o, actor)
    \/ \E cap \in Caps, value \in Overrides : SetRuntimeMaxOrder(o, cap, value)
    \/ StoreWrite(o)
    \/ OperatorFails(o)

RefresherNext(r) == RefreshOverrides(r) \/ RefreshRead(r) \/ RefreshApply(r)

Next ==
    \/ \E o \in Operators : OperatorNext(o)
    \/ \E r \in Refreshers : RefresherNext(r)
    \/ EngineRestart \/ DamageKey \/ Tick

\* Time passes whatever the operators, the engine and the store do; nothing
\* else is promised, not even that the engine ever refreshes.
Spec == Init /\ [][Next]_vars /\ WF_vars(Tick)

-------------------------------------------------------------------------------
(* Properties *)

Text == WireText \cup Actors \cup Reasons \cup {Cleared}
CapInForce == {Absent} \cup (Nat \ {0})

\* Every variable has its type: whatever the store holds, the engine acts on
\* a flag, an expiry or none, and caps that are positive or none.
TypeOK ==
    /\ now \in Time
    /\ store \in [Key -> Text]
    /\ op \in [Operators -> {"idle", "bypass_loss_limit", "clear_loss_limit_bypass",
                             "set_runtime_max_order"}]
    /\ texts \in [Operators -> [Key -> Text]]
    /\ left \in [Operators -> SUBSET Key]
    /\ cache \in [bypass : BOOLEAN, expires_at : Int \cup {Absent},
                  max_order_notional : CapInForce, max_order_quantity : CapInForce]
    /\ unread \in [Refreshers -> SUBSET OverrideKeys]
    /\ raw \in [Refreshers -> [OverrideKeys -> Text]]
    /\ reading \subseteq Refreshers /\ current \subseteq reading
    /\ calls \in 0 .. MaxCalls /\ damaged \in 0 .. DamageBudget
    /\ unopposed \subseteq Operators
    /\ inForce \in BOOLEAN /\ rearmed \in BOOLEAN

\* "The control plane will not write a suspension without a duration, an
\* authoriser and a reason": through torn writes, torn reads and damage, an
\* engine that suspends its loss limit acts on a bypass some operator asked
\* for, of no more than the longest duration, that has not yet lapsed.
BypassAuthorised ==
    Suspended =>
        \E g \in grants :
            /\ cache.expires_at = g.expires
            /\ g.at < g.expires /\ g.expires <= g.at + MaxBypass
            /\ g.actor \in Actors /\ g.reason \in Reasons

\* "Suspended by this person, for this reason, at this time, until that time":
\* while the stored bypass is active, and no field of it has been damaged, its
\* audit fields are those of the call that authorised it.
StoredBypassAttributed ==
    damaged = 0 /\ RecordActive =>
        [at |-> store["set_at"], expires |-> store["expires_at"],
         actor |-> store["actor"], reason |-> store["reason"]] \in grants

\* "Every change takes effect on the engine's next refresh_overrides()": once
\* a refresh that began after the last change has been applied, and as long as
\* no earlier one is applied on top of it, the engine suspends its limit
\* exactly if the record a console reads says so, and acts on the caps that
\* console reads.
RefreshTakesHold ==
    inForce =>
        /\ Suspended <=> RecordActive
        /\ \A cap \in Caps : cache[cap] = DecodePositiveFloat(store[cap])

\* "Re-arm the loss limit immediately": after a clear that no bypass
\* overlapped, and the refresh that follows it, the limit stands, whichever
\* other calls died half-written before, until somebody asks for a new bypass.
ClearRearms == rearmed /\ inForce => ~Suspended

\* A runtime cap in force is one an operator asked for: a torn, damaged or
\* cleared one falls back to the configured limit.
CapsAsAsked ==
    \A cap \in Caps : cache[cap] # Absent => <<cap, cache[cap]>> \in asked

\* "The limit re-arms itself.  Turning it back on requires no action": with
\* nobody clearing, refreshing or restarting, every suspension ends.
LimitRearmsItself == Suspended ~> ~Suspended

===============================================================================
