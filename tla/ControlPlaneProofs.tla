--------------------------- MODULE ControlPlaneProofs ---------------------------
(***************************************************************************)
(* Theorems of ControlPlane, for every set of operators, refreshers and    *)
(* requests, every longest bypass, and any number of damaged fields.       *)
(***************************************************************************)
EXTENDS ControlPlane, TLAPS

OpName == {"idle", "bypass_loss_limit", "clear_loss_limit_bypass", "set_runtime_max_order"}

-------------------------------------------------------------------------------
(* The texts the calls write *)

\* The keys, spelled out for the provers.
LEMMA KeyFacts ==
    /\ BypassKeys \subseteq Key /\ Caps \subseteq Key /\ OverrideKeys \subseteq Key
    /\ Caps \subseteq OverrideKeys /\ {"bypass", "expires_at"} \subseteq OverrideKeys
    /\ BypassKeys \cap Caps = {}
    /\ OverrideKeys = {"bypass", "expires_at"} \cup Caps
  BY DEF Key, BypassKeys, Caps, OverrideKeys

\* Everything a key may hold is a text.
LEMMA TextFacts ==
    /\ Int \subseteq Text /\ WireText \subseteq Text /\ Actors \subseteq Text
    /\ Reasons \subseteq Text /\ {Absent, Blank, Damaged, Cleared} \subseteq Text
    /\ Absent \notin Int /\ Blank \notin Int /\ Damaged \notin Int /\ NonFinite \notin Int
    /\ Time \subseteq Int
  BY EncodingAssumption DEF Text, WireText, Time

\* What is written over a set of texts, key by key.
LEMMA OverwrittenAt ==
    ASSUME NEW K, NEW t \in [K -> Text], NEW batch, NEW by, \A k \in batch : by[k] \in Text
    PROVE  /\ Overwritten(t, batch, by) \in [K -> Text]
           /\ \A k \in K : Overwritten(t, batch, by)[k] = IF k \in batch THEN by[k] ELSE t[k]
  BY DEF Overwritten

\* The record of a bypass or of a clear, field by field (controls.py).
LEMMA RecordFields ==
    ASSUME now \in Time, NEW enabled \in BOOLEAN, NEW expires \in Text,
           NEW actor \in Text, NEW reason \in Text
    PROVE  LET r == Record(enabled, expires, actor, reason)
           IN /\ r \in [BypassKeys -> Text]
              /\ r["bypass"] = EncodeBool(enabled) /\ r["expires_at"] = expires
              /\ r["actor"] = actor /\ r["reason"] = reason /\ r["set_at"] = now
  <1> DEFINE r == Record(enabled, expires, actor, reason)
  <1>1. /\ r["bypass"] = EncodeBool(enabled) /\ r["expires_at"] = expires
        /\ r["actor"] = actor /\ r["reason"] = reason /\ r["set_at"] = EncodeFloat(now)
    BY DEF Record, BypassKeys
  <1>2. EncodeFloat(now) = now /\ now \in Text /\ EncodeBool(enabled) \in Text
    BY TextFacts DEF EncodeFloat, EncodeBool
  <1>3. r \in [BypassKeys -> Text]
    BY <1>2 DEF Record, BypassKeys
  <1>4. QED BY <1>1, <1>2, <1>3

\* What a cap is written as: the cap itself if it is positive, and otherwise
\* nothing a reader takes for a cap (_encode_override, decode_positive_float).
LEMMA OverrideEncoded ==
    ASSUME NEW value \in Overrides
    PROVE  /\ EncodeOverride(value) \in Text
           /\ DecodePositiveFloat(EncodeOverride(value)) # Absent =>
                  DecodePositiveFloat(EncodeOverride(value)) = value
  BY EncodingAssumption, ControlPlaneAssumption
  DEF EncodeOverride, EncodeFloat, DecodePositiveFloat, Float, Text, WireText

-------------------------------------------------------------------------------
(* Type correctness *)

\* No row is no key's text.
LEMMA NoRowsType == ASSUME NEW K PROVE NoRows(K) \in [K -> Text] /\ \A k \in K : NoRows(K)[k] = Absent
  BY TextFacts DEF NoRows

\* What an operator's call changes before its first await.
LEMMA CallTexts ==
    ASSUME TypeOK, NEW o \in Operators, NEW name, NEW keys \in SUBSET Key,
           NEW by \in [keys -> Text], Call(o, name, keys, by)
    PROVE  /\ texts' \in [Operators -> [Key -> Text]] /\ left' \in [Operators -> SUBSET Key]
           /\ calls' \in 0 .. MaxCalls
           /\ UNCHANGED <<now, store, cache, unread, raw, reading, damaged, current, inForce>>
  <1> DEFINE written == Overwritten(NoRows(Key), keys, by)
  <1>1. written \in [Key -> Text]
    BY NoRowsType, OverwrittenAt
  <1>2. /\ calls < MaxCalls /\ calls' = calls + 1
        /\ texts' = [texts EXCEPT ![o] = written] /\ left' = [left EXCEPT ![o] = keys]
        /\ UNCHANGED <<now, store, cache, unread, raw, reading, damaged, current, inForce>>
    BY DEF Call, refresh
  <1> HIDE DEF written
  <1>3. QED BY <1>1, <1>2, ControlPlaneAssumption DEF TypeOK

\* Who it changes it for.
LEMMA CallOthers ==
    ASSUME TypeOK, NEW o \in Operators, NEW name, NEW keys, NEW by, Call(o, name, keys, by)
    PROVE  /\ op[o] = "idle" /\ op'[o] = name /\ left'[o] = keys
           /\ \A p \in Operators : p # o => /\ op'[p] = op[p] /\ left'[p] = left[p]
                                            /\ texts'[p] = texts[p]
  BY DEF Call, TypeOK

\* Its own snapshot, key by key.
LEMMA CallText ==
    ASSUME TypeOK, NEW o \in Operators, NEW name, NEW keys \in SUBSET Key,
           NEW by \in [keys -> Text], Call(o, name, keys, by)
    PROVE  \A k \in Key : texts'[o][k] = IF k \in keys THEN by[k] ELSE Absent
  <1>1. texts'[o] = Overwritten(NoRows(Key), keys, by)
    BY DEF Call, TypeOK
  <1>2. QED BY <1>1 DEF Overwritten, NoRows

\* The three calls, as what they write.
LEMMA BypassTexts ==
    ASSUME TypeOK, NEW o \in Operators, NEW duration \in Durations, NEW actor \in Actors \cup {Blank},
           NEW reason \in Reasons \cup {Blank}, BypassLossLimit(o, duration, actor, reason)
    PROVE  /\ 0 < duration /\ duration <= MaxBypass /\ duration \in Int /\ now \in Nat
           /\ actor \in Actors /\ reason \in Reasons
           /\ Record(TRUE, now + duration, actor, reason) \in [BypassKeys -> Text]
           /\ Call(o, "bypass_loss_limit", BypassKeys, Record(TRUE, now + duration, actor, reason))
           /\ grants' = grants \cup {[at |-> now, expires |-> now + duration,
                                      actor |-> actor, reason |-> reason]}
           /\ unopposed' = {} /\ rearmed' = FALSE /\ asked' = asked
  <1>1. duration \in Int /\ now \in Nat /\ now \in Time /\ now + duration \in Int
    BY ControlPlaneAssumption DEF TypeOK, Time
  <1>2. EncodeFloat(now + duration) = now + duration
    BY <1>1, TextFacts DEF EncodeFloat
  <1>3. actor \in Actors /\ reason \in Reasons
    BY DEF BypassLossLimit
  <1>4. Record(TRUE, now + duration, actor, reason) \in [BypassKeys -> Text]
    BY <1>1, <1>3, TextFacts, RecordFields
  <1>5. QED BY <1>1, <1>2, <1>3, <1>4 DEF BypassLossLimit

\* What a clear writes and leaves alone (clear_loss_limit_bypass).
LEMMA ClearTexts ==
    ASSUME TypeOK, NEW o \in Operators, NEW actor \in Actors \cup {Blank},
           ClearLossLimitBypass(o, actor)
    PROVE  /\ Record(FALSE, Blank, actor, Cleared) \in [BypassKeys -> Text]
           /\ Call(o, "clear_loss_limit_bypass", BypassKeys, Record(FALSE, Blank, actor, Cleared))
           /\ UNCHANGED <<grants, asked, rearmed>>
  BY TextFacts, RecordFields DEF ClearLossLimitBypass, TypeOK

\* What a runtime cap writes and leaves alone (set_runtime_max_order_*).
LEMMA CapTexts ==
    ASSUME TypeOK, NEW o \in Operators, NEW cap \in Caps, NEW value \in Overrides,
           SetRuntimeMaxOrder(o, cap, value)
    PROVE  LET by == [k \in {cap} |-> EncodeOverride(value)]
           IN /\ by \in [{cap} -> Text]
              /\ Call(o, "set_runtime_max_order", {cap}, by)
              /\ asked' = asked \cup {<<cap, value>>}
              /\ UNCHANGED <<grants, unopposed, rearmed>>
  BY OverrideEncoded DEF SetRuntimeMaxOrder

\* A commit of an operator's call, and its death.
LEMMA CommitEffect ==
    ASSUME TypeOK, NEW o \in Operators, StoreWrite(o)
    PROVE  \E batch \in SUBSET left[o] :
              /\ AtomicBatch \/ ~(left[o] \subseteq BypassKeys) => batch = left[o]
              /\ left[o] # {} /\ left'[o] = left[o] \ batch
              /\ store' = Overwritten(store, batch, texts[o])
              /\ \/ /\ batch = left[o] /\ op' = [op EXCEPT ![o] = "idle"]
                    /\ texts' = [texts EXCEPT ![o] = NoRows(Key)]
                    /\ rearmed' = (rearmed \/ o \in unopposed) /\ unopposed' = unopposed \ {o}
                 \/ batch # left[o] /\ UNCHANGED <<op, texts, rearmed, unopposed>>
              /\ left' = [left EXCEPT ![o] = @ \ batch]
              /\ current' = {} /\ inForce' = FALSE
              /\ UNCHANGED <<now, cache, unread, raw, reading, calls, damaged, grants, asked>>
  <1>1. PICK batch \in IF left[o] \subseteq BypassKeys
                       THEN Batches(BypassOrder, left[o]) ELSE {left[o]} : StoreWrite(o)!2!(batch)
    BY DEF StoreWrite
  <1>2. batch \in SUBSET left[o]
    BY DEF Batches
  <1>3. AtomicBatch \/ ~(left[o] \subseteq BypassKeys) => batch = left[o]
    BY DEF Batches
  <1>4. left'[o] = left[o] \ batch
    BY <1>1 DEF TypeOK
  <1>5. /\ left[o] # {} /\ current' = {} /\ inForce' = FALSE
        /\ UNCHANGED <<now, cache, unread, raw, reading, calls, damaged, grants, asked>>
    BY DEF StoreWrite, Changed, refresh
  <1>6. QED BY <1>1, <1>2, <1>3, <1>4, <1>5

\* Every variable keeps its type, whatever is written, read or damaged.
LEMMA TypeInit == Init => TypeOK
  <1> SUFFICES ASSUME Init PROVE TypeOK
    OBVIOUS
  <1>1. now \in Time /\ calls \in 0 .. MaxCalls /\ damaged \in 0 .. DamageBudget
    BY ControlPlaneAssumption DEF Init, Time
  <1>2. /\ store \in [Key -> Text] /\ texts \in [Operators -> [Key -> Text]]
        /\ raw \in [Refreshers -> [OverrideKeys -> Text]]
    BY NoRowsType DEF Init
  <1>3. cache \in [bypass : BOOLEAN, expires_at : Int \cup {Absent},
                   max_order_notional : CapInForce, max_order_quantity : CapInForce]
    BY DEF Init, Defaults, CapInForce
  <1>4. QED BY <1>1, <1>2, <1>3 DEF Init, TypeOK

\* What an engine makes of any texts is a set of overrides.
LEMMA DecodedType ==
    ASSUME NEW t
    PROVE  Decoded(t) \in [bypass : BOOLEAN, expires_at : Int \cup {Absent},
                           max_order_notional : CapInForce, max_order_quantity : CapInForce]
  BY DEF Decoded, DecodeBool, DecodeFloatOr, DecodePositiveFloat, CapInForce

\* Every step keeps the types.
LEMMA TypeNext == TypeOK /\ [Next]_vars => TypeOK'
  <1> SUFFICES ASSUME TypeOK, [Next]_vars PROVE TypeOK'
    OBVIOUS
  <1>1. ASSUME NEW o \in Operators, OperatorNext(o) PROVE TypeOK'
    <2>1. ASSUME NEW duration \in Durations, NEW actor \in Actors \cup {Blank},
                 NEW reason \in Reasons \cup {Blank}, BypassLossLimit(o, duration, actor, reason)
          PROVE  TypeOK'
      <3>1. Call(o, "bypass_loss_limit", BypassKeys, Record(TRUE, now + duration, actor, reason))
        BY <2>1, BypassTexts
      <3>2. Record(TRUE, now + duration, actor, reason) \in [BypassKeys -> Text]
        BY <2>1, BypassTexts
      <3>3. op' \in [Operators -> OpName]
        BY <3>1 DEF Call, TypeOK, OpName
      <3>4. BypassKeys \in SUBSET Key
        BY KeyFacts
      <3>5. /\ texts' \in [Operators -> [Key -> Text]] /\ left' \in [Operators -> SUBSET Key]
            /\ calls' \in 0 .. MaxCalls
            /\ UNCHANGED <<now, store, cache, unread, raw, reading, damaged, current, inForce>>
        BY <3>1, <3>2, <3>4, CallTexts
      <3>6. unopposed' = {} /\ rearmed' = FALSE
        BY <2>1, BypassTexts
      <3>7. QED BY <3>3, <3>5, <3>6 DEF TypeOK, OpName
    <2>2. ASSUME NEW actor \in Actors \cup {Blank}, ClearLossLimitBypass(o, actor)
          PROVE  TypeOK'
      <3>1. Call(o, "clear_loss_limit_bypass", BypassKeys, Record(FALSE, Blank, actor, Cleared))
        BY <2>2, ClearTexts
      <3>2. Record(FALSE, Blank, actor, Cleared) \in [BypassKeys -> Text]
        BY <2>2, ClearTexts
      <3>3. op' \in [Operators -> OpName]
        BY <3>1 DEF Call, TypeOK, OpName
      <3>4. unopposed' \subseteq Operators /\ rearmed' = rearmed
        BY <2>2 DEF ClearLossLimitBypass, TypeOK
      <3>5. BypassKeys \in SUBSET Key
        BY KeyFacts
      <3>6. /\ texts' \in [Operators -> [Key -> Text]] /\ left' \in [Operators -> SUBSET Key]
            /\ calls' \in 0 .. MaxCalls
            /\ UNCHANGED <<now, store, cache, unread, raw, reading, damaged, current, inForce>>
        BY <3>1, <3>2, <3>5, CallTexts
      <3>7. QED BY <3>3, <3>4, <3>6 DEF TypeOK, OpName
    <2>3. ASSUME NEW cap \in Caps, NEW value \in Overrides, SetRuntimeMaxOrder(o, cap, value)
          PROVE  TypeOK'
      <3> DEFINE by == [k \in {cap} |-> EncodeOverride(value)]
      <3>1. /\ by \in [{cap} -> Text] /\ Call(o, "set_runtime_max_order", {cap}, by)
            /\ UNCHANGED <<unopposed, rearmed>>
        BY <2>3, CapTexts
      <3>2. {cap} \in SUBSET Key
        BY KeyFacts
      <3>3. op' \in [Operators -> OpName]
        BY <3>1 DEF Call, TypeOK, OpName
      <3> HIDE DEF by
      <3>4. /\ texts' \in [Operators -> [Key -> Text]] /\ left' \in [Operators -> SUBSET Key]
            /\ calls' \in 0 .. MaxCalls
            /\ UNCHANGED <<now, store, cache, unread, raw, reading, damaged, current, inForce>>
        BY <3>1, <3>2, CallTexts
      <3>5. QED BY <3>1, <3>3, <3>4 DEF TypeOK, OpName
    <2>4. CASE StoreWrite(o)
      <3>1. PICK batch \in SUBSET left[o] :
                /\ store' = Overwritten(store, batch, texts[o])
                /\ \/ /\ op' = [op EXCEPT ![o] = "idle"]
                      /\ texts' = [texts EXCEPT ![o] = NoRows(Key)]
                      /\ rearmed' = (rearmed \/ o \in unopposed) /\ unopposed' = unopposed \ {o}
                   \/ UNCHANGED <<op, texts, rearmed, unopposed>>
                /\ left' = [left EXCEPT ![o] = @ \ batch]
                /\ current' = {} /\ inForce' = FALSE
                /\ UNCHANGED <<now, cache, unread, raw, reading, calls, damaged>>
        BY <2>4, CommitEffect
      <3>2. \A k \in batch : texts[o][k] \in Text
        BY DEF TypeOK
      <3>3. store' \in [Key -> Text]
        BY <3>1, <3>2 DEF TypeOK, Overwritten
      <3>4. left' \in [Operators -> SUBSET Key]
        BY <3>1 DEF TypeOK
      <3>5. op' \in [Operators -> OpName]
        BY <3>1 DEF TypeOK, OpName
      <3>6. texts' \in [Operators -> [Key -> Text]]
        BY <3>1, NoRowsType DEF TypeOK
      <3>7. rearmed' \in BOOLEAN /\ unopposed' \subseteq Operators
        BY <3>1 DEF TypeOK
      <3>8. QED BY <3>1, <3>3, <3>4, <3>5, <3>6, <3>7 DEF TypeOK, OpName
    <2>5. CASE OperatorFails(o)
      BY <2>5, NoRowsType DEF OperatorFails, TypeOK, refresh
    <2>6. QED BY <1>1, <2>1, <2>2, <2>3, <2>4, <2>5 DEF OperatorNext
  <1>2. ASSUME NEW r \in Refreshers, RefresherNext(r) PROVE TypeOK'
    <2>1. CASE RefreshOverrides(r)
      BY <2>1 DEF RefreshOverrides, TypeOK, operators, ledger
    <2>2. CASE RefreshRead(r)
      <3>1. PICK batch \in Batches(OverrideOrder, unread[r]) : RefreshRead(r)!2!(batch)
        BY <2>2 DEF RefreshRead
      <3>2. batch \subseteq unread[r]
        BY DEF Batches
      <3>3. Overwritten(raw[r], batch, store) \in [OverrideKeys -> Text]
        BY <3>2, KeyFacts DEF TypeOK, Overwritten
      <3>4. raw' \in [Refreshers -> [OverrideKeys -> Text]] /\ unread' \in [Refreshers -> SUBSET OverrideKeys]
        BY <3>1, <3>3 DEF TypeOK
      <3>5. QED BY <2>2, <3>4 DEF RefreshRead, TypeOK, operators, ledger
    <2>3. CASE RefreshApply(r)
      BY <2>3, DecodedType, NoRowsType DEF RefreshApply, TypeOK, operators, ledger
    <2>4. QED BY <1>2, <2>1, <2>2, <2>3 DEF RefresherNext
  <1>3. CASE EngineRestart
    <2>1. Defaults \in [bypass : BOOLEAN, expires_at : Int \cup {Absent},
                        max_order_notional : CapInForce, max_order_quantity : CapInForce]
      BY DEF Defaults, CapInForce
    <2>2. raw' \in [Refreshers -> [OverrideKeys -> Text]]
      BY <1>3, NoRowsType DEF EngineRestart
    <2>3. QED BY <1>3, <2>1, <2>2 DEF EngineRestart, TypeOK, operators, ledger
  <1>4. CASE DamageKey
    <2>1. store' \in [Key -> Text]
      BY <1>4, TextFacts, ControlPlaneAssumption DEF DamageKey, TypeOK
    <2>2. damaged' \in 0 .. DamageBudget
      BY <1>4, ControlPlaneAssumption DEF DamageKey, TypeOK
    <2>3. /\ current' = {} /\ inForce' = FALSE
          /\ UNCHANGED <<now, op, texts, left, cache, unread, raw, reading, calls, unopposed, rearmed>>
      BY <1>4 DEF DamageKey, Changed, operators, refresh, ledger
    <2>4. QED BY <2>1, <2>2, <2>3 DEF TypeOK
  <1>5. CASE Tick
    BY <1>5, ControlPlaneAssumption DEF Tick, TypeOK, Time, operators, refresh, ledger
  <1>6. CASE UNCHANGED vars
    BY <1>6 DEF vars, TypeOK, operators, refresh, ledger
  <1>7. QED BY <1>1, <1>2, <1>3, <1>4, <1>5, <1>6 DEF Next

\* Whatever the store holds, the engine acts on a flag, an expiry or none, and
\* caps that are positive or none.
THEOREM ControlTypeCorrect == Spec => []TypeOK
  BY TypeInit, TypeNext, PTL DEF Spec

-------------------------------------------------------------------------------
(* Where the engine's overrides come from *)

\* An expiry among the texts t is that of a bypass asked for, and a cap a
\* reader takes from them is one asked for.
Sourced(t, bypasses, caps) ==
    /\ t["expires_at"] \in Int => \E g \in bypasses : g.expires = t["expires_at"]
    /\ \A cap \in Caps : DecodePositiveFloat(t[cap]) # Absent =>
           <<cap, DecodePositiveFloat(t[cap])>> \in caps

\* Only what the control plane lets through is ever asked for.
GrantsInv ==
    \A g \in grants :
        /\ g.at < g.expires /\ g.expires <= g.at + MaxBypass
        /\ g.actor \in Actors /\ g.reason \in Reasons

\* So is what the engine acts on, what it has read so far, what is stored and
\* what is about to be stored, however these were torn.
SourceInv ==
    /\ GrantsInv
    /\ Sourced(store, grants, asked)
    /\ \A o \in Operators : Sourced(texts[o], grants, asked)
    /\ \A r \in Refreshers : Sourced(raw[r], grants, asked)
    /\ cache.expires_at \in Int => \E g \in grants : g.expires = cache.expires_at
    /\ \A cap \in Caps : cache[cap] # Absent => <<cap, cache[cap]>> \in asked

\* A refresh since whose beginning nothing changed has read what is stored,
\* and one that is in force has made the cache of it.
ReadingInv ==
    /\ inForce => cache = Decoded(store)
    /\ \A r \in current : \A k \in OverrideKeys \ unread[r] : raw[r][k] = store[k]

\* Only a bypass writes a flag that suspends.  While none is in progress and
\* since a clear it did not overlap wrote the flag, the stored one does not.
RearmInv ==
    /\ \A o \in Operators :
           op[o] # "bypass_loss_limit" => ~DecodeBool(texts[o]["bypass"])
    /\ rearmed =>
           ~DecodeBool(store["bypass"]) /\ \A o \in Operators : op[o] # "bypass_loss_limit"
    /\ \A o \in unopposed :
           /\ op[o] = "clear_loss_limit_bypass"
           /\ \A p \in Operators : op[p] # "bypass_loss_limit"
           /\ "bypass" \notin left[o] => ~DecodeBool(store["bypass"])

\* Texts that suspend the limit carry the audit fields of the call that asked
\* for it.
Attributed(t, bypasses) ==
    DecodeBool(t["bypass"]) =>
        [at |-> t["set_at"], expires |-> t["expires_at"],
         actor |-> t["actor"], reason |-> t["reason"]] \in bypasses

\* A call writes a whole record of a bypass, or none of it.
AttributionInv ==
    /\ damaged = 0 => Attributed(store, grants)
    /\ \A o \in Operators :
           /\ Attributed(texts[o], grants)
           /\ left[o] \in {{}, BypassKeys} \cup {{cap} : cap \in Caps}

\* A text that came from a call still does when more has been asked.
LEMMA SourcedMore ==
    ASSUME NEW t, NEW gs, NEW cs, Sourced(t, gs, cs), NEW gs2, gs \subseteq gs2,
           NEW cs2, cs \subseteq cs2
    PROVE  Sourced(t, gs2, cs2)
  BY DEF Sourced

\* What is torn out of sourced texts is sourced.
LEMMA SourcedTorn ==
    ASSUME NEW K, OverrideKeys \subseteq K, NEW t \in [K -> Text], NEW by, NEW batch,
           NEW gs, NEW cs, Sourced(t, gs, cs), Sourced(by, gs, cs)
    PROVE  Sourced(Overwritten(t, batch, by), gs, cs)
  <1>1. \A k \in OverrideKeys :
            Overwritten(t, batch, by)[k] = IF k \in batch THEN by[k] ELSE t[k]
    BY DEF Overwritten
  <1>2. "expires_at" \in OverrideKeys /\ Caps \subseteq OverrideKeys
    BY KeyFacts
  <1>3. QED BY <1>1, <1>2 DEF Sourced

\* An absent row asserts nothing.
LEMMA NothingSourced ==
    ASSUME NEW K, OverrideKeys \subseteq K, NEW gs, NEW cs
    PROVE  Sourced(NoRows(K), gs, cs)
  BY KeyFacts, TextFacts, NoRowsType DEF Sourced, DecodePositiveFloat

\* Nothing is stored, read or asked at the start.
LEMMA SourceInit == Init => SourceInv
  <1> SUFFICES ASSUME Init PROVE SourceInv
    OBVIOUS
  <1>1. Sourced(NoRows(Key), grants, asked) /\ Sourced(NoRows(OverrideKeys), grants, asked)
    BY NothingSourced, KeyFacts
  <1>2. cache.expires_at = Absent /\ \A cap \in Caps : cache[cap] = Absent
    BY DEF Init, Defaults, Caps
  <1>3. QED BY <1>1, <1>2, TextFacts DEF Init, SourceInv, GrantsInv

\* A call whose snapshot is sourced keeps everything sourced.
LEMMA CallSourced ==
    ASSUME TypeOK, TypeOK', SourceInv, NEW o \in Operators, NEW name, NEW keys \in SUBSET Key,
           NEW by \in [keys -> Text], Call(o, name, keys, by),
           grants \subseteq grants', asked \subseteq asked', GrantsInv',
           Sourced(texts'[o], grants', asked')
    PROVE  SourceInv'
  <1>1. /\ UNCHANGED <<store, raw, cache>>
        /\ \A p \in Operators : p # o => texts'[p] = texts[p]
    BY CallOthers DEF Call, refresh
  <1>2. Sourced(store, grants', asked') /\ \A r \in Refreshers : Sourced(raw[r], grants', asked')
    BY SourcedMore DEF SourceInv
  <1>3. \A p \in Operators : Sourced(texts'[p], grants', asked')
    BY <1>1, SourcedMore DEF SourceInv
  <1>4. QED BY <1>1, <1>2, <1>3 DEF SourceInv

\* Every step keeps the source of every text and setting.
LEMMA SourceNext ==
    ASSUME TypeOK, TypeOK', SourceInv, [Next]_vars
    PROVE  SourceInv'
  <1>k. BypassKeys \in SUBSET Key /\ "expires_at" \in BypassKeys /\ BypassKeys \cap Caps = {}
        /\ "expires_at" \in Key /\ Caps \subseteq Key /\ OverrideKeys \subseteq Key
        /\ "expires_at" \notin Caps
    BY DEF Key, BypassKeys, Caps, OverrideKeys
  <1>a. DecodePositiveFloat(Absent) = Absent /\ Absent \notin Int /\ Blank \notin Int
    BY TextFacts DEF DecodePositiveFloat
  <1>1. ASSUME NEW o \in Operators, NEW duration \in Durations, NEW actor \in Actors \cup {Blank},
               NEW reason \in Reasons \cup {Blank}, BypassLossLimit(o, duration, actor, reason)
        PROVE  SourceInv'
    <2> DEFINE by == Record(TRUE, now + duration, actor, reason)
               g == [at |-> now, expires |-> now + duration, actor |-> actor, reason |-> reason]
    <2>1. /\ 0 < duration /\ duration <= MaxBypass /\ duration \in Int /\ now \in Nat
          /\ actor \in Actors /\ reason \in Reasons
          /\ by \in [BypassKeys -> Text] /\ Call(o, "bypass_loss_limit", BypassKeys, by)
          /\ grants' = grants \cup {g} /\ asked' = asked
      BY <1>1, BypassTexts
    <2>2. g.at < g.expires /\ g.expires <= g.at + MaxBypass /\ g.actor \in Actors /\ g.reason \in Reasons
      BY <2>1, ControlPlaneAssumption
    <2>3. by["expires_at"] = g.expires
      BY <1>k DEF Record
    <2> HIDE DEF by, g
    <2>4. \A k \in Key : texts'[o][k] = IF k \in BypassKeys THEN by[k] ELSE Absent
      BY <1>k, <2>1, CallText
    <2>5. texts'[o]["expires_at"] = g.expires /\ \A cap \in Caps : texts'[o][cap] = Absent
      BY <1>k, <2>3, <2>4
    <2>6. Sourced(texts'[o], grants', asked')
      BY <1>a, <2>1, <2>5 DEF Sourced
    <2>7. GrantsInv'
      BY <2>1, <2>2 DEF SourceInv, GrantsInv
    <2>8. QED BY <1>k, <2>1, <2>6, <2>7, CallSourced
  <1>2. ASSUME NEW o \in Operators, NEW actor \in Actors \cup {Blank}, ClearLossLimitBypass(o, actor)
        PROVE  SourceInv'
    <2> DEFINE by == Record(FALSE, Blank, actor, Cleared)
    <2>1. /\ by \in [BypassKeys -> Text] /\ Call(o, "clear_loss_limit_bypass", BypassKeys, by)
          /\ grants' = grants /\ asked' = asked
      BY <1>2, ClearTexts
    <2>2. by["expires_at"] = Blank
      BY <1>k DEF Record
    <2> HIDE DEF by
    <2>3. \A k \in Key : texts'[o][k] = IF k \in BypassKeys THEN by[k] ELSE Absent
      BY <1>k, <2>1, CallText
    <2>4. texts'[o]["expires_at"] = Blank /\ \A cap \in Caps : texts'[o][cap] = Absent
      BY <1>k, <2>2, <2>3
    <2>5. Sourced(texts'[o], grants', asked')
      BY <1>a, <2>4 DEF Sourced
    <2>6. GrantsInv'
      BY <2>1 DEF SourceInv, GrantsInv
    <2>7. QED BY <1>k, <2>1, <2>5, <2>6, CallSourced
  <1>3. ASSUME NEW o \in Operators, NEW cap \in Caps, NEW value \in Overrides,
               SetRuntimeMaxOrder(o, cap, value)
        PROVE  SourceInv'
    <2> DEFINE by == [k \in {cap} |-> EncodeOverride(value)]
    <2>1. /\ by \in [{cap} -> Text] /\ Call(o, "set_runtime_max_order", {cap}, by)
          /\ asked' = asked \cup {<<cap, value>>} /\ grants' = grants
      BY <1>3, CapTexts
    <2>2. by[cap] = EncodeOverride(value) /\ {cap} \in SUBSET Key
      BY <1>k
    <2> HIDE DEF by
    <2>3. \A k \in Key : texts'[o][k] = IF k = cap THEN by[k] ELSE Absent
      BY <2>1, <2>2, CallText
    <2>4. texts'[o]["expires_at"] = Absent
      BY <1>k, <2>3
    <2>5. \A c \in Caps : DecodePositiveFloat(texts'[o][c]) # Absent =>
              <<c, DecodePositiveFloat(texts'[o][c])>> \in asked'
      BY <1>a, <1>k, <2>1, <2>2, <2>3, OverrideEncoded
    <2>6. Sourced(texts'[o], grants', asked')
      BY <1>a, <2>4, <2>5 DEF Sourced
    <2>7. GrantsInv'
      BY <2>1 DEF SourceInv, GrantsInv
    <2>8. QED BY <2>1, <2>2, <2>6, <2>7, CallSourced
  <1>4. ASSUME NEW o \in Operators, StoreWrite(o) PROVE SourceInv'
    <2>1. PICK batch \in SUBSET left[o] :
              /\ store' = Overwritten(store, batch, texts[o])
              /\ \/ texts' = [texts EXCEPT ![o] = NoRows(Key)]
                 \/ UNCHANGED texts
              /\ UNCHANGED <<cache, raw, grants, asked>>
      BY <1>4, CommitEffect
    <2>2. store \in [Key -> Text]
      BY DEF TypeOK
    <2>3. Sourced(store', grants, asked)
      BY <1>k, <2>1, <2>2, SourcedTorn DEF SourceInv
    <2>4. \A p \in Operators : texts'[p] = texts[p] \/ texts'[p] = NoRows(Key)
      BY <2>1 DEF TypeOK
    <2>5. \A p \in Operators : Sourced(texts'[p], grants, asked)
      BY <1>k, <2>4, NothingSourced DEF SourceInv
    <2>6. QED BY <2>1, <2>3, <2>5 DEF SourceInv, GrantsInv
  <1>5. ASSUME NEW o \in Operators, OperatorFails(o) PROVE SourceInv'
    <2>1. \A p \in Operators : texts'[p] = texts[p] \/ texts'[p] = NoRows(Key)
      BY <1>5 DEF OperatorFails, TypeOK
    <2>2. \A p \in Operators : Sourced(texts'[p], grants, asked)
      BY <1>k, <2>1, NothingSourced DEF SourceInv
    <2>3. UNCHANGED <<store, cache, raw, grants, asked>>
      BY <1>5 DEF OperatorFails, refresh
    <2>4. QED BY <2>2, <2>3 DEF SourceInv, GrantsInv
  <1>6. ASSUME NEW r \in Refreshers, RefreshRead(r) PROVE SourceInv'
    <2>1. PICK batch \in Batches(OverrideOrder, unread[r]) :
              raw' = [raw EXCEPT ![r] = Overwritten(@, batch, store)]
      BY <1>6 DEF RefreshRead
    <2>2. raw[r] \in [OverrideKeys -> Text] /\ raw'[r] = Overwritten(raw[r], batch, store)
          /\ \A q \in Refreshers : q # r => raw'[q] = raw[q]
      BY <2>1 DEF TypeOK
    <2>3. Sourced(raw'[r], grants, asked)
      BY <2>2, SourcedTorn DEF SourceInv
    <2>4. \A q \in Refreshers : Sourced(raw'[q], grants, asked)
      BY <2>2, <2>3 DEF SourceInv
    <2>5. UNCHANGED <<store, cache, texts, grants, asked>>
      BY <1>6 DEF RefreshRead, operators, ledger
    <2>6. QED BY <2>4, <2>5 DEF SourceInv, GrantsInv
  <1>7. ASSUME NEW r \in Refreshers, RefreshApply(r) PROVE SourceInv'
    <2>1. /\ cache' = Decoded(raw[r]) /\ raw' = [raw EXCEPT ![r] = NoRows(OverrideKeys)]
          /\ UNCHANGED <<store, texts, grants, asked>>
      BY <1>7 DEF RefreshApply, operators, ledger
    <2>2. Sourced(raw[r], grants, asked)
      BY DEF SourceInv
    <2>3. /\ cache'.expires_at = DecodeFloatOr(raw[r]["expires_at"], Absent)
          /\ \A cap \in Caps : cache'[cap] = DecodePositiveFloat(raw[r][cap])
      BY <2>1 DEF Decoded, Caps
    <2>4. cache'.expires_at \in Int => \E g \in grants : g.expires = cache'.expires_at
      BY <1>a, <2>2, <2>3 DEF Sourced, DecodeFloatOr
    <2>5. \A cap \in Caps : cache'[cap] # Absent => <<cap, cache'[cap]>> \in asked
      BY <2>2, <2>3 DEF Sourced
    <2>6. \A q \in Refreshers : raw'[q] = raw[q] \/ raw'[q] = NoRows(OverrideKeys)
      BY <2>1 DEF TypeOK
    <2>7. \A q \in Refreshers : Sourced(raw'[q], grants, asked)
      BY <2>6, NothingSourced DEF SourceInv
    <2>8. QED BY <2>1, <2>4, <2>5, <2>7 DEF SourceInv, GrantsInv
  <1>8. CASE EngineRestart
    <2>1. /\ cache' = Defaults /\ \A r \in Refreshers : raw'[r] = NoRows(OverrideKeys)
          /\ UNCHANGED <<store, texts, grants, asked>>
      BY <1>8 DEF EngineRestart, operators, ledger
    <2>2. cache'.expires_at = Absent /\ \A cap \in Caps : cache'[cap] = Absent
      BY <2>1 DEF Defaults, Caps
    <2>3. \A r \in Refreshers : Sourced(raw'[r], grants, asked)
      BY <2>1, NothingSourced
    <2>4. QED BY <1>a, <2>1, <2>2, <2>3 DEF SourceInv, GrantsInv
  <1>9. CASE DamageKey
    <2>1. PICK damage \in Key \X {Absent, Damaged} :
            store' = [store EXCEPT ![damage[1]] = damage[2]]
      BY <1>9, ControlPlaneAssumption DEF DamageKey
    <2>2. UNCHANGED <<cache, texts, raw, grants, asked>>
      BY <1>9 DEF DamageKey, operators, refresh, ledger
    <2>3. \A j \in Key : store'[j] = store[j] \/ store'[j] \in {Absent, Damaged}
      BY <2>1 DEF TypeOK
    <2>4. \A bad \in {Absent, Damaged} : bad \notin Int /\ DecodePositiveFloat(bad) = Absent
      BY TextFacts DEF DecodePositiveFloat
    <2>5. Sourced(store', grants, asked)
      BY <1>k, <2>3, <2>4 DEF Sourced, SourceInv
    <2>6. QED BY <2>2, <2>5 DEF SourceInv, GrantsInv
  <1>10. ASSUME UNCHANGED <<store, texts, raw, cache, grants, asked>> PROVE SourceInv'
    BY <1>10 DEF SourceInv, GrantsInv
  <1>11. ASSUME NEW r \in Refreshers, RefreshOverrides(r) PROVE SourceInv'
    BY <1>10, <1>11 DEF RefreshOverrides, operators, ledger
  <1>12. CASE Tick \/ UNCHANGED vars
    BY <1>10, <1>12 DEF Tick, vars, operators, refresh, ledger
  <1>13. QED
    BY <1>1, <1>2, <1>3, <1>4, <1>5, <1>6, <1>7, <1>8, <1>9, <1>11, <1>12
    DEF Next, OperatorNext, RefresherNext

\* An engine that suspends its loss limit acts on a bypass some operator asked
\* for, of no more than the longest duration, that has not yet lapsed.
THEOREM SuspensionAuthorised == Spec => []BypassAuthorised
  <1>1. SourceInv => BypassAuthorised
    BY DEF SourceInv, GrantsInv, BypassAuthorised, Suspended, ActiveAt
  <1>2. TypeOK /\ TypeOK' /\ SourceInv /\ [Next]_vars => SourceInv'
    BY SourceNext
  <1>3. QED BY <1>1, <1>2, SourceInit, ControlTypeCorrect, PTL DEF Spec

\* A runtime cap in force is one an operator asked for.
THEOREM CapsAuthorised == Spec => []CapsAsAsked
  <1>1. SourceInv => CapsAsAsked
    BY DEF SourceInv, CapsAsAsked
  <1>2. TypeOK /\ TypeOK' /\ SourceInv /\ [Next]_vars => SourceInv'
    BY SourceNext
  <1>3. QED BY <1>1, <1>2, SourceInit, ControlTypeCorrect, PTL DEF Spec

-------------------------------------------------------------------------------
(* When a change takes effect *)

\* No console reads at the start.
LEMMA ReadingInit == Init => ReadingInv
  BY DEF Init, ReadingInv

\* Texts that agree on the keys a refresh reads are decoded alike.
LEMMA DecodedAlike ==
    ASSUME NEW t, NEW u, \A k \in OverrideKeys : t[k] = u[k]
    PROVE  Decoded(t) = Decoded(u)
  BY DEF Decoded, OverrideKeys

\* Every step keeps what a reading has in hand.
LEMMA ReadingNext ==
    ASSUME TypeOK, TypeOK', ReadingInv, [Next]_vars
    PROVE  ReadingInv'
  <1>1. ASSUME inForce' = FALSE, current' = {} PROVE ReadingInv'
    BY <1>1 DEF ReadingInv
  <1>2. ASSUME UNCHANGED <<store, cache, raw, unread, current, inForce>> PROVE ReadingInv'
    BY <1>2 DEF ReadingInv
  <1>3. ASSUME NEW o \in Operators, OperatorNext(o) PROVE ReadingInv'
    <2>1. CASE StoreWrite(o)
      BY <1>1, <2>1 DEF StoreWrite, Changed
    <2>2. CASE OperatorFails(o)
      BY <1>2, <2>2 DEF OperatorFails, refresh
    <2>3. ASSUME NEW name, NEW keys, NEW by, Call(o, name, keys, by) PROVE ReadingInv'
      BY <1>2, <2>3 DEF Call, refresh
    <2>4. QED
      BY <1>3, <2>1, <2>2, <2>3
      DEF OperatorNext, BypassLossLimit, ClearLossLimitBypass, SetRuntimeMaxOrder
  <1>4. ASSUME NEW r \in Refreshers, RefresherNext(r) PROVE ReadingInv'
    <2>1. CASE RefreshOverrides(r)
      <3>1. /\ unread' = [unread EXCEPT ![r] = OverrideKeys] /\ current' = current \cup {r}
            /\ UNCHANGED <<store, cache, raw, inForce>>
        BY <2>1 DEF RefreshOverrides
      <3>2. /\ OverrideKeys \ unread'[r] = {}
            /\ \A q \in Refreshers : q # r => unread'[q] = unread[q]
        BY <3>1 DEF TypeOK
      <3>3. current \subseteq Refreshers
        BY DEF TypeOK
      <3>4. QED BY <3>1, <3>2, <3>3 DEF ReadingInv
    <2>2. CASE RefreshRead(r)
      <3>1. PICK batch \in Batches(OverrideOrder, unread[r]) : RefreshRead(r)!2!(batch)
        BY <2>2 DEF RefreshRead
      <3>2. /\ UNCHANGED <<store, cache, current, inForce>>
            /\ raw'[r] = Overwritten(raw[r], batch, store) /\ unread'[r] = unread[r] \ batch
            /\ \A q \in Refreshers : q # r => raw'[q] = raw[q] /\ unread'[q] = unread[q]
        BY <2>2, <3>1 DEF RefreshRead, TypeOK
      <3>3. \A k \in OverrideKeys : raw'[r][k] = IF k \in batch THEN store[k] ELSE raw[r][k]
        BY <3>2 DEF Overwritten, TypeOK
      <3>4. current \subseteq Refreshers
        BY DEF TypeOK
      <3>5. QED BY <3>2, <3>3, <3>4 DEF ReadingInv
    <2>3. CASE RefreshApply(r)
      <3>1. /\ unread[r] = {} /\ cache' = Decoded(raw[r]) /\ inForce' = (r \in current)
            /\ current' = current \ {r} /\ UNCHANGED <<store, unread>>
            /\ \A q \in Refreshers : q # r => raw'[q] = raw[q]
        BY <2>3 DEF RefreshApply, TypeOK
      <3>2. r \in current => Decoded(raw[r]) = Decoded(store)
        BY <3>1, DecodedAlike DEF ReadingInv
      <3>3. current \subseteq Refreshers
        BY DEF TypeOK
      <3>4. inForce' => cache' = Decoded(store')
        BY <3>1, <3>2
      <3>5. QED BY <3>1, <3>3, <3>4 DEF ReadingInv
    <2>4. QED BY <1>4, <2>1, <2>2, <2>3 DEF RefresherNext
  <1>5. CASE EngineRestart
    BY <1>1, <1>5 DEF EngineRestart
  <1>6. CASE DamageKey
    BY <1>1, <1>6 DEF DamageKey, Changed
  <1>7. CASE Tick \/ UNCHANGED vars
    BY <1>2, <1>7 DEF Tick, vars, refresh
  <1>8. QED BY <1>3, <1>4, <1>5, <1>6, <1>7 DEF Next

\* What a reading has in hand, of every behaviour.
LEMMA ReadingHolds == Spec => []ReadingInv
  <1>1. TypeOK /\ TypeOK' /\ ReadingInv /\ [Next]_vars => ReadingInv'
    BY ReadingNext
  <1>2. QED BY <1>1, ReadingInit, ControlTypeCorrect, PTL DEF Spec

\* Once a refresh that began after the last change has been applied, the
\* engine suspends its limit exactly if the record a console reads says so,
\* and acts on the caps that console reads.
THEOREM ChangesTakeHold == Spec => []RefreshTakesHold
  <1>1. ReadingInv => RefreshTakesHold
    BY DEF ReadingInv, RefreshTakesHold, Suspended, RecordActive, Decoded, Caps
  <1>2. QED BY <1>1, ReadingHolds, PTL

\* No clear is outstanding at the start.
LEMMA RearmInit == Init => RearmInv
  <1> SUFFICES ASSUME Init PROVE RearmInv
    OBVIOUS
  <1>1. store["bypass"] = Absent /\ \A o \in Operators : op[o] = "idle" /\ texts[o]["bypass"] = Absent
    BY DEF Init, NoRows, Key, BypassKeys
  <1>2. ~DecodeBool(Absent)
    BY TextFacts DEF DecodeBool
  <1>3. QED BY <1>1, <1>2 DEF Init, RearmInv

\* Every step keeps what a clear promises.
LEMMA RearmNext ==
    ASSUME TypeOK, TypeOK', RearmInv, [Next]_vars
    PROVE  RearmInv'
  <1>k. BypassKeys \in SUBSET Key /\ "bypass" \in BypassKeys /\ "bypass" \in Key
        /\ "bypass" \notin Caps
    BY DEF Key, BypassKeys, Caps
  <1>a. ~DecodeBool(Absent) /\ ~DecodeBool(Damaged) /\ ~DecodeBool(EncodeBool(FALSE))
    BY TextFacts DEF DecodeBool, EncodeBool
  <1>b. NoRows(Key)["bypass"] = Absent
    BY <1>k DEF NoRows
  <1>u. unopposed \subseteq Operators /\ unopposed' \subseteq Operators
    BY DEF TypeOK
  <1>1. ASSUME NEW o \in Operators, NEW duration \in Durations, NEW actor \in Actors \cup {Blank},
               NEW reason \in Reasons \cup {Blank}, BypassLossLimit(o, duration, actor, reason)
        PROVE  RearmInv'
    <2>1. /\ Call(o, "bypass_loss_limit", BypassKeys, Record(TRUE, now + duration, actor, reason))
          /\ unopposed' = {} /\ rearmed' = FALSE
      BY <1>1, BypassTexts
    <2>2. op'[o] = "bypass_loss_limit" /\ \A p \in Operators : p # o => op'[p] = op[p] /\ texts'[p] = texts[p]
      BY <2>1, CallOthers
    <2>3. QED BY <2>1, <2>2 DEF RearmInv
  <1>2. ASSUME NEW o \in Operators, NEW actor \in Actors \cup {Blank}, ClearLossLimitBypass(o, actor)
        PROVE  RearmInv'
    <2> DEFINE by == Record(FALSE, Blank, actor, Cleared)
    <2>1. /\ by \in [BypassKeys -> Text] /\ Call(o, "clear_loss_limit_bypass", BypassKeys, by)
          /\ rearmed' = rearmed
      BY <1>2, ClearTexts
    <2>2. unopposed' = IF \A p \in Operators : op[p] # "bypass_loss_limit"
                       THEN unopposed \cup {o} ELSE unopposed
      BY <1>2 DEF ClearLossLimitBypass
    <2>3. by["bypass"] = EncodeBool(FALSE)
      BY <1>k DEF Record
    <2> HIDE DEF by
    <2>4. texts'[o]["bypass"] = EncodeBool(FALSE)
      <3>1. \A k \in Key : texts'[o][k] = IF k \in BypassKeys THEN by[k] ELSE Absent
        BY <1>k, <2>1, CallText
      <3>2. QED BY <1>k, <2>3, <3>1
    <2>5. /\ op[o] = "idle" /\ op'[o] = "clear_loss_limit_bypass" /\ left'[o] = BypassKeys
          /\ \A p \in Operators : p # o => /\ op'[p] = op[p] /\ left'[p] = left[p]
                                           /\ texts'[p] = texts[p]
      BY <2>1, CallOthers
    <2>6. store' = store
      BY <2>1 DEF Call
    <2>7. (\A p \in Operators : op'[p] # "bypass_loss_limit") <=>
              (\A p \in Operators : op[p] # "bypass_loss_limit")
      BY <2>5
    <2>8. \A p \in unopposed' : p # o => p \in unopposed
      BY <2>2
    <2>9. o \in unopposed' => \A p \in Operators : op[p] # "bypass_loss_limit"
      BY <2>2 DEF RearmInv
    <2>10. QED BY <1>a, <1>k, <1>u, <2>1, <2>4, <2>5, <2>6, <2>7, <2>8, <2>9 DEF RearmInv
  <1>3. ASSUME NEW o \in Operators, NEW cap \in Caps, NEW value \in Overrides,
               SetRuntimeMaxOrder(o, cap, value)
        PROVE  RearmInv'
    <2> DEFINE by == [k \in {cap} |-> EncodeOverride(value)]
    <2>1. /\ by \in [{cap} -> Text] /\ Call(o, "set_runtime_max_order", {cap}, by)
          /\ UNCHANGED <<unopposed, rearmed>>
      BY <1>3, CapTexts
    <2> HIDE DEF by
    <2>2. {cap} \in SUBSET Key /\ "bypass" \notin {cap}
      BY <1>k, KeyFacts
    <2>3. texts'[o]["bypass"] = Absent
      BY <1>k, <2>1, <2>2, CallText
    <2>4. /\ op[o] = "idle" /\ op'[o] = "set_runtime_max_order"
          /\ \A p \in Operators : p # o => /\ op'[p] = op[p] /\ left'[p] = left[p]
                                           /\ texts'[p] = texts[p]
      BY <2>1, CallOthers
    <2>5. store' = store /\ o \notin unopposed
      BY <2>1, <2>4 DEF Call, RearmInv
    <2>6. QED BY <1>a, <1>u, <2>1, <2>3, <2>4, <2>5 DEF RearmInv
  <1>4. ASSUME NEW o \in Operators, StoreWrite(o) PROVE RearmInv'
    <2>1. PICK batch \in SUBSET left[o] :
              /\ left'[o] = left[o] \ batch /\ store' = Overwritten(store, batch, texts[o])
              /\ \/ /\ batch = left[o] /\ op' = [op EXCEPT ![o] = "idle"]
                    /\ texts' = [texts EXCEPT ![o] = NoRows(Key)]
                    /\ rearmed' = (rearmed \/ o \in unopposed) /\ unopposed' = unopposed \ {o}
                 \/ batch # left[o] /\ UNCHANGED <<op, texts, rearmed, unopposed>>
              /\ left' = [left EXCEPT ![o] = @ \ batch]
      BY <1>4, CommitEffect
    <2>2. store'["bypass"] = IF "bypass" \in batch THEN texts[o]["bypass"] ELSE store["bypass"]
      BY <1>k, <2>1 DEF Overwritten, TypeOK
    <2>3. /\ \A p \in Operators : p # o => /\ op'[p] = op[p] /\ left'[p] = left[p]
                                           /\ texts'[p] = texts[p]
          /\ \/ op'[o] = op[o] /\ texts'[o] = texts[o]
             \/ op'[o] = "idle" /\ texts'[o] = NoRows(Key)
      BY <2>1 DEF TypeOK
    <2>4. ASSUME op[o] # "bypass_loss_limit", ~DecodeBool(store["bypass"]) \/ "bypass" \in batch
          PROVE  ~DecodeBool(store'["bypass"])
      BY <2>2, <2>4 DEF RearmInv
    <2>5. rearmed' => /\ ~DecodeBool(store'["bypass"])
                      /\ \A p \in Operators : op'[p] # "bypass_loss_limit"
      <3>1. CASE rearmed
        BY <2>3, <2>4, <3>1 DEF RearmInv
      <3>2. CASE ~rearmed
        <4> SUFFICES ASSUME rearmed'
                     PROVE  /\ ~DecodeBool(store'["bypass"])
                            /\ \A p \in Operators : op'[p] # "bypass_loss_limit"
          OBVIOUS
        <4>1. batch = left[o] /\ o \in unopposed
          BY <2>1, <3>2
        <4>2. QED BY <2>3, <2>4, <4>1 DEF RearmInv
      <3>3. QED BY <3>1, <3>2
    <2>6. ASSUME NEW p \in unopposed'
          PROVE  /\ op'[p] = "clear_loss_limit_bypass"
                 /\ \A q \in Operators : op'[q] # "bypass_loss_limit"
                 /\ "bypass" \notin left'[p] => ~DecodeBool(store'["bypass"])
      <3>1. p \in unopposed /\ p \in Operators /\ op'[p] = op[p]
        BY <1>u, <2>1, <2>3
      <3>2. \A q \in Operators : op'[q] # "bypass_loss_limit"
        BY <2>3, <3>1 DEF RearmInv
      <3>3. "bypass" \notin left'[p] => ~DecodeBool(store["bypass"]) \/ "bypass" \in batch
        BY <2>1, <2>3, <3>1 DEF RearmInv
      <3>4. QED BY <2>4, <3>1, <3>2, <3>3 DEF RearmInv
    <2>7. \A p \in Operators : op'[p] # "bypass_loss_limit" => ~DecodeBool(texts'[p]["bypass"])
      BY <1>a, <1>b, <2>3 DEF RearmInv
    <2>8. QED BY <2>5, <2>6, <2>7 DEF RearmInv
  <1>5. ASSUME NEW o \in Operators, OperatorFails(o) PROVE RearmInv'
    <2>1. /\ op'[o] = "idle" /\ texts'[o] = NoRows(Key)
          /\ \A p \in Operators : p # o => /\ op'[p] = op[p] /\ left'[p] = left[p]
                                           /\ texts'[p] = texts[p]
          /\ unopposed' = unopposed \ {o} /\ UNCHANGED <<store, rearmed>>
      BY <1>5 DEF OperatorFails, TypeOK
    <2>2. QED BY <1>a, <1>b, <1>u, <2>1 DEF RearmInv
  <1>6. CASE DamageKey
    <2>1. store'["bypass"] = store["bypass"] \/ store'["bypass"] \in {Absent, Damaged}
      <3>1. PICK damage \in Key \X {Absent, Damaged} :
              store' = [store EXCEPT ![damage[1]] = damage[2]]
        BY <1>6, ControlPlaneAssumption DEF DamageKey
      <3>2. QED BY <1>k, <3>1 DEF TypeOK
    <2>2. UNCHANGED <<op, texts, left, unopposed, rearmed>>
      BY <1>6 DEF DamageKey, operators, ledger
    <2>3. QED BY <1>a, <2>1, <2>2 DEF RearmInv
  <1>7. ASSUME UNCHANGED <<store, op, texts, left, unopposed, rearmed>> PROVE RearmInv'
    BY <1>7 DEF RearmInv
  <1>8. ASSUME NEW r \in Refreshers, RefresherNext(r) PROVE RearmInv'
    BY <1>7, <1>8
    DEF RefresherNext, RefreshOverrides, RefreshRead, RefreshApply, operators, ledger
  <1>9. CASE EngineRestart \/ Tick \/ UNCHANGED vars
    BY <1>7, <1>9 DEF EngineRestart, Tick, vars, operators, ledger
  <1>10. QED
    BY <1>1, <1>2, <1>3, <1>4, <1>5, <1>6, <1>8, <1>9 DEF Next, OperatorNext

\* After a clear that no bypass overlapped, and the refresh that follows it,
\* the limit stands until somebody asks for a new bypass.
THEOREM ClearTakesHold == Spec => []ClearRearms
  <1>1. ReadingInv /\ RearmInv => ClearRearms
    BY DEF ReadingInv, RearmInv, ClearRearms, Suspended, ActiveAt, Decoded
  <1>2. TypeOK /\ TypeOK' /\ RearmInv /\ [Next]_vars => RearmInv'
    BY RearmNext
  <1>3. QED BY <1>1, <1>2, RearmInit, ReadingHolds, ControlTypeCorrect, PTL DEF Spec

-------------------------------------------------------------------------------
(* Who suspended the limit, over a store with transactions *)

\* No bypass is stored at the start.
LEMMA AttributionInit == Init => AttributionInv
  <1> SUFFICES ASSUME Init PROVE AttributionInv
    OBVIOUS
  <1>1. store["bypass"] = Absent /\ \A o \in Operators : texts[o]["bypass"] = Absent /\ left[o] = {}
    BY DEF Init, NoRows, Key, BypassKeys
  <1>2. ~DecodeBool(Absent)
    BY TextFacts DEF DecodeBool
  <1>3. QED BY <1>1, <1>2 DEF AttributionInv, Attributed

\* A call whose snapshot is attributed, and whole, keeps everything so.
LEMMA CallAttributed ==
    ASSUME TypeOK, AttributionInv, NEW o \in Operators, NEW name, NEW keys, NEW by,
           Call(o, name, keys, by), grants \subseteq grants',
           keys = BypassKeys \/ \E cap \in Caps : keys = {cap},
           Attributed(texts'[o], grants')
    PROVE  AttributionInv'
  <1>1. left'[o] = keys /\ UNCHANGED <<store, damaged>>
        /\ \A p \in Operators : p # o => left'[p] = left[p] /\ texts'[p] = texts[p]
    <2>1. UNCHANGED <<store, damaged>>
      BY DEF Call
    <2>2. /\ left'[o] = keys
          /\ \A p \in Operators : p # o => left'[p] = left[p] /\ texts'[p] = texts[p]
      BY CallOthers
    <2>3. QED BY <2>1, <2>2
  <1>2. \A p \in Operators : Attributed(texts'[p], grants')
    BY <1>1 DEF AttributionInv, Attributed
  <1>3. damaged' = 0 => Attributed(store', grants')
    BY <1>1 DEF AttributionInv, Attributed
  <1>4. \A p \in Operators : left'[p] \in {{}, BypassKeys} \cup {{cap} : cap \in Caps}
    BY <1>1 DEF AttributionInv
  <1>5. QED BY <1>2, <1>3, <1>4 DEF AttributionInv

\* Every step keeps the record of a bypass together when a batch is atomic.
LEMMA AttributionNext ==
    ASSUME AtomicBatch, TypeOK, TypeOK', AttributionInv, [Next]_vars
    PROVE  AttributionInv'
  <1>k. /\ BypassKeys \in SUBSET Key /\ BypassKeys = {"bypass", "expires_at", "actor", "reason", "set_at"}
        /\ \A cap \in Caps : cap \in Key /\ cap \notin BypassKeys
    BY DEF Key, BypassKeys, Caps
  <1>a. ~DecodeBool(Absent) /\ ~DecodeBool(EncodeBool(FALSE))
    BY TextFacts DEF DecodeBool, EncodeBool
  <1>b. \A gs : Attributed(NoRows(Key), gs)
    BY <1>a, <1>k DEF Attributed, NoRows
  <1>1. ASSUME NEW o \in Operators, NEW duration \in Durations, NEW actor \in Actors \cup {Blank},
               NEW reason \in Reasons \cup {Blank}, BypassLossLimit(o, duration, actor, reason)
        PROVE  AttributionInv'
    <2> DEFINE by == Record(TRUE, now + duration, actor, reason)
               g == [at |-> now, expires |-> now + duration, actor |-> actor, reason |-> reason]
    <2>0. now \in Time /\ now \in Int
      BY ControlPlaneAssumption DEF TypeOK, Time
    <2>1. /\ duration \in Int /\ actor \in Actors /\ reason \in Reasons
          /\ by \in [BypassKeys -> Text] /\ Call(o, "bypass_loss_limit", BypassKeys, by)
          /\ grants' = grants \cup {g}
      BY <1>1, BypassTexts
    <2>2. EncodeFloat(now) = now
      BY <2>0, TextFacts DEF EncodeFloat
    <2>3. /\ by["expires_at"] = now + duration /\ by["actor"] = actor
          /\ by["reason"] = reason /\ by["set_at"] = now
      BY <1>k, <2>2 DEF Record
    <2>4. g = [at |-> by["set_at"], expires |-> by["expires_at"],
               actor |-> by["actor"], reason |-> by["reason"]]
      BY <2>3
    <2> HIDE DEF by, g
    <2>5. \A k \in BypassKeys : texts'[o][k] = by[k]
      BY <1>k, <2>1, CallText
    <2>6. Attributed(texts'[o], grants')
      BY <1>k, <2>1, <2>4, <2>5 DEF Attributed
    <2>7. QED BY <2>1, <2>6, CallAttributed
  <1>2. ASSUME NEW o \in Operators, NEW actor \in Actors \cup {Blank}, ClearLossLimitBypass(o, actor)
        PROVE  AttributionInv'
    <2> DEFINE by == Record(FALSE, Blank, actor, Cleared)
    <2>1. /\ by \in [BypassKeys -> Text] /\ Call(o, "clear_loss_limit_bypass", BypassKeys, by)
          /\ grants' = grants
      BY <1>2, ClearTexts
    <2>2. by["bypass"] = EncodeBool(FALSE)
      BY <1>k DEF Record
    <2> HIDE DEF by
    <2>3. \A k \in BypassKeys : texts'[o][k] = by[k]
      BY <1>k, <2>1, CallText
    <2>4. Attributed(texts'[o], grants')
      BY <1>a, <1>k, <2>2, <2>3 DEF Attributed
    <2>5. QED BY <2>1, <2>4, CallAttributed
  <1>3. ASSUME NEW o \in Operators, NEW cap \in Caps, NEW value \in Overrides,
               SetRuntimeMaxOrder(o, cap, value)
        PROVE  AttributionInv'
    <2> DEFINE by == [k \in {cap} |-> EncodeOverride(value)]
    <2>1. /\ by \in [{cap} -> Text] /\ Call(o, "set_runtime_max_order", {cap}, by)
          /\ grants' = grants
      BY <1>3, CapTexts
    <2> HIDE DEF by
    <2>2. {cap} \in SUBSET Key /\ "bypass" \notin {cap} /\ "bypass" \in Key
      BY <1>k
    <2>3. \A k \in Key : texts'[o][k] = IF k \in {cap} THEN by[k] ELSE Absent
      BY <2>1, <2>2, CallText
    <2>4. Attributed(texts'[o], grants')
      BY <1>a, <2>2, <2>3 DEF Attributed
    <2>5. QED BY <2>1, <2>4, CallAttributed
  <1>4. ASSUME NEW o \in Operators, StoreWrite(o) PROVE AttributionInv'
    <2>1. PICK batch \in SUBSET left[o] :
              /\ AtomicBatch \/ ~(left[o] \subseteq BypassKeys) => batch = left[o]
              /\ left[o] # {}
              /\ store' = Overwritten(store, batch, texts[o])
              /\ \/ texts' = [texts EXCEPT ![o] = NoRows(Key)]
                 \/ UNCHANGED texts
              /\ left' = [left EXCEPT ![o] = @ \ batch]
              /\ UNCHANGED <<damaged, grants>>
      BY <1>4, CommitEffect
    <2>2. batch = left[o]
      BY <2>1
    <2>3. \A k \in BypassKeys : store'[k] = IF k \in left[o] THEN texts[o][k] ELSE store[k]
      BY <1>k, <2>1, <2>2 DEF Overwritten, TypeOK
    <2>4. left[o] = BypassKeys \/ \E cap \in Caps : left[o] = {cap}
      BY <2>1 DEF AttributionInv
    <2>5. \/ \A k \in BypassKeys : store'[k] = texts[o][k]
          \/ \A k \in BypassKeys : store'[k] = store[k]
      BY <1>k, <2>3, <2>4
    <2>6. damaged' = 0 => Attributed(store', grants')
      BY <1>k, <2>1, <2>5 DEF AttributionInv, Attributed
    <2>7. \A p \in Operators : /\ texts'[p] = texts[p] \/ texts'[p] = NoRows(Key)
                               /\ left'[p] = left[p] \/ left'[p] = {}
      BY <2>1, <2>2 DEF TypeOK
    <2>8. \A p \in Operators : /\ Attributed(texts'[p], grants')
                               /\ left'[p] \in {{}, BypassKeys} \cup {{cap} : cap \in Caps}
      BY <1>b, <2>1, <2>7 DEF AttributionInv
    <2>9. QED BY <2>6, <2>8 DEF AttributionInv
  <1>5. ASSUME NEW o \in Operators, OperatorFails(o) PROVE AttributionInv'
    <2>1. UNCHANGED <<store, damaged, grants>>
      BY <1>5 DEF OperatorFails
    <2>2. \A p \in Operators : /\ texts'[p] = texts[p] \/ texts'[p] = NoRows(Key)
                               /\ left'[p] = left[p] \/ left'[p] = {}
      BY <1>5 DEF OperatorFails, TypeOK
    <2>3. \A p \in Operators : /\ Attributed(texts'[p], grants')
                               /\ left'[p] \in {{}, BypassKeys} \cup {{cap} : cap \in Caps}
      BY <1>b, <2>1, <2>2 DEF AttributionInv
    <2>4. QED BY <2>1, <2>3 DEF AttributionInv
  <1>6. CASE DamageKey
    <2>1. damaged' # 0 /\ UNCHANGED <<texts, left, grants>>
      BY <1>6, ControlPlaneAssumption DEF DamageKey, operators, ledger, TypeOK
    <2>2. QED BY <2>1 DEF AttributionInv
  <1>7. ASSUME UNCHANGED <<store, damaged, texts, left, grants>> PROVE AttributionInv'
    BY <1>7 DEF AttributionInv
  <1>8. ASSUME NEW r \in Refreshers, RefresherNext(r) PROVE AttributionInv'
    BY <1>7, <1>8
    DEF RefresherNext, RefreshOverrides, RefreshRead, RefreshApply, operators, ledger
  <1>9. CASE EngineRestart \/ Tick \/ UNCHANGED vars
    BY <1>7, <1>9 DEF EngineRestart, Tick, vars, operators, ledger
  <1>10. QED
    BY <1>1, <1>2, <1>3, <1>4, <1>5, <1>6, <1>8, <1>9 DEF Next, OperatorNext

\* While the stored bypass is active and no field has been damaged, its audit
\* fields are those of the call that authorised it: two operators never mix
\* their records in a store that commits a record at once.
THEOREM StoredBypassAudited == ASSUME AtomicBatch PROVE Spec => []StoredBypassAttributed
  <1>1. AttributionInv => StoredBypassAttributed
    BY DEF AttributionInv, Attributed, StoredBypassAttributed, RecordActive, ActiveAt
  <1>2. TypeOK /\ TypeOK' /\ AttributionInv /\ [Next]_vars => AttributionInv'
    BY AttributionNext
  <1>3. QED BY <1>1, <1>2, AttributionInit, ControlTypeCorrect, PTL DEF Spec

===============================================================================
