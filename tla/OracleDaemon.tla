---------------------------- MODULE OracleDaemon ----------------------------
(***************************************************************************)
(* oracled: one process that announces price ticks ahead of time, attests  *)
(* them as they mature, and keeps both as files it serves over HTTP.  The  *)
(* main loop, the price refresh thread, file writes that are not atomic    *)
(* (fs::write truncates, then writes), kills and restarts.                 *)
(*                                                                         *)
(* Files are sets of what a reader can decode: a truncated file and an     *)
(* absent one are both not in the set.  An Option is a set of at most one  *)
(* element.  The wall clock never steps back.                              *)
(***************************************************************************)
EXTENDS Integers, FiniteSets

CONSTANTS Price,        \* whole-USD prices the venues quote
          PriceArgs,    \* price arguments: {} is `live`, {p} a fixed price
          Venue,        \* the spot APIs
          CADENCE,      \* seconds between ticks
          LEAD_TICKS, STALE_S, BAND_BPS, NB_DIGITS,
          CATCH_UP_S,   \* the literal 30 of main
          BPS,          \* the literal 10_000 of within_band
          MaxClock, MaxLives   \* bounds of a run

ASSUME DaemonAssumption ==
    /\ Price \subseteq Nat \ {0}
    /\ PriceArgs \subseteq SUBSET Nat
    /\ IsFiniteSet(Venue)
    /\ CADENCE \in Nat \ {0}
    /\ {LEAD_TICKS, STALE_S, BAND_BPS, CATCH_UP_S, MaxClock, MaxLives} \subseteq Nat
    /\ {NB_DIGITS, BPS} \subseteq Nat \ {0}

VARIABLES clock,          \* SystemTime::now, in seconds
          pc,             \* where main is
          fixed_price,    \* Option<u32>
          cache,          \* Option<(fetched_at, price)> of the refresh thread
          now,            \* main's reading of the clock in this iteration
          next_announce, last_attested,
          held,           \* the price read for the tick being attested
          wake,           \* when main's sleep ends
          ann,            \* ticks with a whole ann-<t>.hex
          att,            \* whole att-<t>.hex files
          latest,         \* latest.txt
          life, since,    \* history: which start this is, and its first tick
          published       \* history: attestations a reader could fetch

loopVars == <<now, next_announce, last_attested, held, wake>>
fileVars == <<ann, att, latest, published>>
lifeVars == <<life, since, fixed_price>>
vars == <<clock, pc, cache, loopVars, fileVars, lifeVars>>

TickOf(t) == t - (t % CADENCE)

(***************************************************************************)
(* Prices.                                                                 *)
(***************************************************************************)

(* A quote of 0 stands for a venue that did not answer. *)
Quotes == [Venue -> Price \cup {0}]
Answered(q) == {v \in Venue : q[v] > 0}

(* live::median_usd: at least two answers, the lower of the middle ones. *)
MedianUsd(q) ==
    LET mid == (Cardinality(Answered(q)) - 1) \div 2
    IN  CHOOSE p \in {q[v] : v \in Answered(q)} :
            /\ Cardinality({v \in Answered(q) : q[v] < p}) <= mid
            /\ mid < Cardinality({v \in Answered(q) : q[v] <= p})

(* A cache that never expires. *)
CurrentForEver(t) == cache

(* live::current: the cached price unless it is older than STALE_S. *)
Current(t) == {c \in cache : t <= c.at + STALE_S}

(* dispute::within_band *)
WithinBand(p, ref) ==
    LET diff == IF p > ref THEN p - ref ELSE ref - p
    IN  diff <= (ref * BAND_BPS) \div BPS

(* event::digits: the binary digits of the price, first one the highest. *)
MaxOutcome == 2 ^ NB_DIGITS - 1
Clamp(p) == IF p < MaxOutcome THEN p ELSE MaxOutcome
DigitsUnclamped(p) == [i \in 1 .. NB_DIGITS |-> (p \div 2 ^ (NB_DIGITS - i)) % 2]
Digits(p) == DigitsUnclamped(Clamp(p))

(* equivocation::verify_equivocation on two attestations signed with the   *)
(* oracle's key: the nonce is a function of event and digit index, so two  *)
(* different digits at one index share it and give the key away.           *)
VerifyEquivocation(a, b) ==
    /\ a.tick = b.tick
    /\ \E i \in 1 .. NB_DIGITS : a.outcomes[i] # b.outcomes[i]

Attest(t, p) == [tick |-> t, outcomes |-> Digits(p)]

(***************************************************************************)
(* The process.                                                            *)
(***************************************************************************)
Init ==
    /\ clock = 0
    /\ pc = "down"
    /\ fixed_price = {} /\ cache = {} /\ held = {}
    /\ now = 0 /\ next_announce = 0 /\ last_attested = 0 /\ wake = 0
    /\ ann = {} /\ att = {} /\ latest = {} /\ published = {}
    /\ life = 0 /\ since = 0

(* One cadence too far back. *)
FirstLastAttestedBack(t) == IF t >= 2 * CADENCE THEN t - 2 * CADENCE ELSE 0

(* The tick last attested, as a new process takes it: the one before the   *)
(* current tick; the files are not looked at.                              *)
FirstLastAttested(t) == IF t >= CADENCE THEN t - CADENCE ELSE 0

(* main up to the loop: the counters come from the clock alone.            *)
Start(arg) ==
    /\ pc = "down" /\ life < MaxLives
    /\ fixed_price' = arg
    /\ life' = life + 1
    /\ since' = TickOf(clock)
    /\ next_announce' = TickOf(clock)
    /\ last_attested' = FirstLastAttested(TickOf(clock))
    /\ pc' = "loop" /\ wake' = clock
    /\ UNCHANGED <<clock, cache, now, held, fileVars>>

(* A kill, or a write that fails and ends main with an error. *)
Crash ==
    /\ pc # "down"
    /\ pc' = "down"
    /\ cache' = {} /\ held' = {}
    /\ now' = 0 /\ next_announce' = 0 /\ last_attested' = 0 /\ wake' = 0
    /\ UNCHANGED <<clock, fileVars, lifeVars>>

Tick ==
    /\ clock < MaxClock
    /\ clock' = clock + 1
    /\ UNCHANGED <<pc, cache, loopVars, fileVars, lifeVars>>

(* live::fetch_median: what a poll of the venues can yield; with less than *)
(* two answers it yields nothing.                                          *)
Polls ==
    {MedianUsd(q) : q \in {x \in Quotes : Cardinality(Answered(x)) >= 2}}

(* The refresh thread.  It may run at any time: a poll takes up to 15 s.   *)
Refresh ==
    /\ pc # "down"
    /\ \E m \in Polls : cache' = {[at |-> clock, price |-> m]}
    /\ UNCHANGED <<clock, pc, loopVars, fileVars, lifeVars>>

(***************************************************************************)
(* One iteration: announce to the horizon, attest up to now, sleep.        *)
(***************************************************************************)
Wake ==
    /\ pc = "loop" /\ clock >= wake
    /\ now' = clock
    /\ pc' = "announce"
    /\ UNCHANGED <<clock, cache, next_announce, last_attested, held, wake, fileVars, lifeVars>>

Horizon == TickOf(now) + LEAD_TICKS * CADENCE

(* `<` for `<=`. *)
AnnounceDueEarly == next_announce < Horizon
AnnounceDue == next_announce <= Horizon

(* fs::write of ann-<t>.hex: an existing file is emptied first. *)
TruncateAnnouncement ==
    /\ pc = "announce" /\ AnnounceDue
    /\ ann' = ann \ {next_announce}
    /\ pc' = "announcing"
    /\ UNCHANGED <<clock, cache, loopVars, att, latest, published, lifeVars>>

FillAnnouncement ==
    /\ pc = "announcing"
    /\ ann' = ann \cup {next_announce}
    /\ next_announce' = next_announce + CADENCE
    /\ pc' = "announce"
    /\ UNCHANGED <<clock, cache, now, last_attested, held, wake, att, latest,
                   published, lifeVars>>

AnnouncedAll ==
    /\ pc = "announce" /\ ~AnnounceDue
    /\ pc' = "attest"
    /\ UNCHANGED <<clock, cache, loopVars, fileVars, lifeVars>>

TickDue == last_attested + CADENCE

(* Missed by more than the catch-up window. *)
Late(t) == TickOf(now) - t > CATCH_UP_S

(* The price for a tick: the argument, or the cached median as of now. *)
Reading ==
    IF fixed_price # {}
    THEN {[price |-> p, fetched |-> {}] : p \in fixed_price}
    ELSE {[price |-> c.price, fetched |-> {c.at}] : c \in Current(now)}

TakeTick ==
    /\ pc = "attest" /\ last_attested < TickOf(now)
    /\ last_attested' = TickDue
    /\ IF Late(TickDue) \/ Reading = {}
       THEN UNCHANGED <<pc, held>>
       ELSE held' = Reading /\ pc' = "check"
    /\ UNCHANGED <<clock, cache, now, next_announce, wake, fileVars, lifeVars>>

(* The cross-check reads the cache a second time.  Out of band: refused in *)
(* live mode, a warning otherwise.  A missing reference lets it pass.      *)
Refused ==
    /\ fixed_price = {}
    /\ \E c \in Current(now), h \in held : ~WithinBand(h.price, c.price)

(* The attestation goes to disk before the latest.txt that names it. *)
WriteFirst == "att"

CrossCheck ==
    /\ pc = "check"
    /\ IF Refused
       THEN pc' = "attest" /\ held' = {} /\ UNCHANGED att
       ELSE /\ pc' = WriteFirst
            /\ att' = {a \in att : a.tick # last_attested}
            /\ UNCHANGED held
    /\ UNCHANGED <<clock, cache, now, next_announce, last_attested, wake, ann, latest,
                   published, lifeVars>>

FillAttestation ==
    /\ pc = "att"
    /\ \E h \in held :
          /\ att' = att \cup {Attest(last_attested, h.price)}
          /\ published' = published \cup
                {[tick |-> last_attested, price |-> h.price, fetched |-> h.fetched,
                  read_at |-> now, life |-> life, since |-> since]}
    /\ held' = {}
    /\ pc' = "latest"
    /\ UNCHANGED <<clock, cache, now, next_announce, last_attested, wake, ann, latest,
                   lifeVars>>

TruncateLatest ==
    /\ pc = "latest"
    /\ latest' = {}
    /\ pc' = "latest_write"
    /\ UNCHANGED <<clock, cache, loopVars, ann, att, published, lifeVars>>

FillLatest ==
    /\ pc = "latest_write"
    /\ latest' = {last_attested}
    /\ pc' = "attest"
    /\ UNCHANGED <<clock, cache, loopVars, ann, att, published, lifeVars>>

Sleep ==
    /\ pc = "attest" /\ last_attested >= TickOf(now)
    /\ wake' = clock + CADENCE
    /\ pc' = "loop"
    /\ UNCHANGED <<clock, cache, now, next_announce, last_attested, held, fileVars, lifeVars>>

Iteration ==
    \/ Wake \/ TruncateAnnouncement \/ FillAnnouncement \/ AnnouncedAll
    \/ TakeTick \/ CrossCheck \/ FillAttestation \/ TruncateLatest \/ FillLatest
    \/ Sleep

Next ==
    \/ \E arg \in PriceArgs : Start(arg)
    \/ Crash
    \/ Tick
    \/ Refresh
    \/ Iteration

Spec == Init /\ [][Next]_vars

(***************************************************************************)
(* What holds.                                                             *)
(***************************************************************************)

(* Two attestations of one tick can only be the work of two processes, the *)
(* later one started within that very tick: the counters main starts from  *)
(* let no restart reach further back.                                      *)
EquivocationNeedsRestart ==
    \A a, b \in published :
        a.tick = b.tick /\ a # b =>
            /\ a.life # b.life
            /\ a.life < b.life => a.tick = b.since

(* When a tick is being attested, the announcements of that tick and of    *)
(* every tick through the lead time are whole on disk, those that an       *)
(* earlier process left half-written included.                             *)
AnnouncedAhead ==
    pc \in {"check", "att", "latest", "latest_write"} =>
        \A k \in 0 .. LEAD_TICKS : last_attested + k * CADENCE \in ann

(* A published price was read for its tick: the tick was not past the      *)
(* catch-up window, and a live price was at most STALE_S old.              *)
PriceBelongsToTick ==
    \A a \in published :
        /\ a.tick <= a.read_at /\ TickOf(a.read_at) <= a.tick + CATCH_UP_S
        /\ \A at \in a.fetched : a.tick <= at + STALE_S

(* verify_equivocation convicts on two published attestations exactly when *)
(* they attest two outcomes for one tick; prices the digits cannot tell    *)
(* apart are one outcome.                                                  *)
EvidenceIsExact ==
    \A a, b \in published :
        VerifyEquivocation(Attest(a.tick, a.price), Attest(b.tick, b.price))
            <=> a.tick = b.tick /\ Clamp(a.price) # Clamp(b.price)
=============================================================================
