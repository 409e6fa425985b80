-------------------------- MODULE InterfaceSamples --------------------------
(***************************************************************************)
(* How the interfaces of a device become samples and differences: the      *)
(* discovery of the indexes and the queries of src/snmp/client.rs, made    *)
(* by the polling loop of src/web/server.rs and, a little differently, by  *)
(* PollingEngine of src/monitor/poller.rs for the TUI; the samples of the  *)
(* repository, and counter32_delta of src/db/repository.rs.                *)
(*                                                                         *)
(* An interface has one error counter here; the code treats each of its    *)
(* nine in the same way.  A counter counts modulo Modulus, which stands    *)
(* for 2^32, and starts again from 0 when the device restarts.  Other      *)
(* columns than the errors and the octets are left out.                    *)
(***************************************************************************)
EXTENDS Integers, Sequences, FiniteSets, SequencesExt, Places

CONSTANTS
  Interfaces,  \* ifIndex values, as numbers
  Modulus,     \* one more than the greatest value of a counter
  Margin,      \* how far below that a counter is taken to wrap
  MaxSteps,    \* requests of one discovery of the indexes
  Guesses,     \* the indexes tried when the table gives none, in order
  Fallback,    \* the indexes of a device whose discovery fails
  Starts,      \* what the counters may stand at in the beginning
  Rises,       \* by how much a counter may rise at a time
  SampleBudget \* bounds of a behaviour: polls, losses, and changes of the device

ASSUME SampleAssumption ==
  /\ Interfaces \subseteq Nat \ {0} /\ Modulus \in Nat \ {0}
  /\ Margin \in Nat /\ MaxSteps \in Nat /\ Starts \subseteq Nat /\ Rises \subseteq Nat
  /\ SampleBudget \in [polls: Nat, losses: Nat, changes: Nat]
  /\ Guesses \in Seq(Nat) /\ IsInjective(Guesses)
  /\ Fallback \in Seq(Nat) /\ IsInjective(Fallback)

VARIABLES
  device,   \* the interfaces there are, what their counters have counted since the device
            \* was installed, and what they had counted when it last restarted
  agent,    \* whether the agent goes through its table in order
  engine,   \* who polls: the "web" server's loop or the "tui"
  stage,    \* where the poll is
  cursor,   \* the index the discovery has come to
  steps,    \* the requests it has sent
  indexes,  \* what it has found
  todo,     \* the indexes still to be queried
  taken,    \* the samples of this poll
  stored,   \* the two latest samples of each interface, the latest first
  spent,    \* bounds: polls, losses and changes so far
  steady,   \* history: the interfaces that have been there throughout the poll
  clean     \* history: no answer of this poll was lost

sampleVars == <<device, agent, engine, stage, cursor, steps, indexes, todo, taken, stored,
                spent, steady, clean>>
discovery == <<cursor, steps, indexes>>

SamplesInit ==
  /\ \E s \in Starts :
       device \in [there: SUBSET Interfaces, restarts: {0},
                   total: {[i \in Interfaces |-> s]}, base: {[i \in Interfaces |-> 0]}]
  /\ agent \in {"sound", "faulty"} /\ engine \in {"web", "tui"}
  /\ stage = "idle" /\ cursor = 0 /\ steps = 0 /\ indexes = <<>> /\ todo = <<>> /\ taken = <<>>
  /\ stored = [i \in Interfaces |-> <<>>]
  /\ spent = [polls |-> 0, losses |-> 0, changes |-> 0]
  /\ steady = Interfaces /\ clean = TRUE

Spend(what) == spent[what] < SampleBudget[what] /\ spent' = [spent EXCEPT ![what] = @ + 1]
\* An answer that is lost, for whatever reason.
Lost == Spend("losses") /\ clean' = FALSE
Kept == UNCHANGED <<spent, clean>>

Counter(i) == (device.total[i] - device.base[i]) % Modulus

-----------------------------------------------------------------------------
\* A poll starts.  Without a session there is no discovery.
BeginPoll ==
  /\ stage = "idle"
  /\ indexes' = <<>> /\ cursor' = 0 /\ steps' = 0 /\ taken' = <<>>
  /\ steady' = device.there /\ clean' = TRUE
  /\ Spend("polls") /\ stage' = "discover" /\ todo' = <<>>
  /\ UNCHANGED <<device, agent, engine, stored>>

\* The session of the discovery cannot be opened: the Web server tries some indexes, the
\* TUI gives up on the device.
NoSession ==
  /\ stage = "discover" /\ steps = 0 /\ Lost
  /\ IF engine = "web" THEN stage' = "query" /\ todo' = Fallback
     ELSE stage' = "idle" /\ UNCHANGED todo
  /\ UNCHANGED <<device, agent, engine, discovery, taken, stored, steady>>

\* GETNEXT of the index column.  Nothing checks that the answer goes on.
NextIndex(i) ==
  /\ stage = "discover" /\ steps < MaxSteps /\ i \in device.there
  /\ agent = "sound" => i > cursor /\ \A j \in device.there : j > cursor => i <= j
  /\ cursor' = i /\ steps' = steps + 1
  /\ indexes' = IF Contains(indexes, i) THEN indexes ELSE Append(indexes, i)
  /\ Kept
  /\ UNCHANGED <<device, agent, engine, stage, todo, taken, stored, steady>>

\* The discovery ends at the end of the column, after its last request or without an
\* answer.  If it has found nothing it guesses.
EndDiscovery ==
  /\ stage = "discover"
  /\ \/ (steps = MaxSteps \/ agent = "faulty" \/ \A j \in device.there : j <= cursor) /\ Kept
     \/ steps < MaxSteps /\ Lost
  /\ IF indexes = <<>> THEN stage' = "guess" /\ todo' = Guesses
     ELSE stage' = "query" /\ todo' = indexes
  /\ UNCHANGED <<device, agent, engine, discovery, taken, stored, steady>>

\* GET of one index that may exist: every answer counts, that there is none too.
Guess ==
  /\ stage = "guess" /\ todo # <<>>
  /\ \/ indexes' = Append(indexes, Head(todo)) /\ Kept
     \/ UNCHANGED indexes /\ Lost
  /\ todo' = Tail(todo)
  /\ UNCHANGED <<device, agent, engine, stage, cursor, steps, taken, stored, steady>>

EndGuessing ==
  /\ stage = "guess" /\ todo = <<>>
  /\ stage' = "query" /\ todo' = indexes /\ Kept
  /\ UNCHANGED <<device, agent, engine, discovery, taken, stored, steady>>

\* query_interface: without the octets there is no sample, and an error counter that does
\* not answer is 0.  The last three fields are history: whether that happened, and where
\* the true counter stood.
SampleOf(i, lost) ==
  [index |-> i, errors |-> IF lost THEN 0 ELSE Counter(i),
   lost |-> lost, total |-> device.total[i], restarts |-> device.restarts]

QueryNext ==
  LET i == Head(todo)
  IN  \/ i \in device.there /\ taken' = Append(taken, SampleOf(i, FALSE)) /\ Kept
      \/ i \in device.there /\ taken' = Append(taken, SampleOf(i, TRUE)) /\ Lost
      \/ i \in device.there /\ UNCHANGED taken /\ Lost
      \/ i \notin device.there /\ UNCHANGED taken /\ Kept

Query ==
  /\ stage \in {"query", "again"} /\ todo # <<>>
  /\ todo' = Tail(todo) /\ QueryNext
  /\ UNCHANGED <<device, agent, engine, stage, discovery, stored, steady>>

\* The TUI tries some indexes when it has no sample at all, once.
QueryAgain ==
  /\ stage = "query" /\ todo = <<>> /\ engine = "tui" /\ taken = <<>>
  /\ stage' = "again" /\ todo' = Fallback
  /\ Kept
  /\ UNCHANGED <<device, agent, engine, discovery, taken, stored, steady>>

\* The latest samples after those of a poll.
StoredWith(samples) ==
  [i \in Interfaces |->
     LET mine == EntriesAt(samples, {k \in DOMAIN samples : samples[k].index = i})
         all  == Reverse(mine) \o stored[i]
     IN  SubSeq(all, 1, IF Len(all) < 2 THEN Len(all) ELSE 2)]

\* The samples of the poll are saved under one lock.
SaveSamples ==
  /\ todo = <<>> /\ (stage = "again" \/ (stage = "query" /\ (engine = "web" \/ taken # <<>>)))
  /\ stored' = StoredWith(taken) /\ stage' = "idle" /\ Kept
  /\ UNCHANGED <<device, agent, engine, discovery, todo, taken, steady>>

-----------------------------------------------------------------------------
\* The device: an error is counted, an interface comes or goes, everything
\* restarts from 0.
CountErrors(i, n) ==
  /\ i \in device.there /\ Spend("changes")
  /\ device' = [device EXCEPT !.total[i] = @ + n]
  /\ UNCHANGED <<agent, engine, stage, discovery, todo, taken, stored, steady, clean>>

ComeOrGo(i) ==
  /\ Spend("changes")
  /\ device' = [device EXCEPT !.there = IF i \in @ THEN @ \ {i} ELSE @ \cup {i}]
  /\ steady' = steady \ {i}
  /\ UNCHANGED <<agent, engine, stage, discovery, todo, taken, stored, clean>>

Restart ==
  /\ Spend("changes")
  /\ device' = [device EXCEPT !.base = device.total, !.restarts = @ + 1]
  /\ UNCHANGED <<agent, engine, stage, discovery, todo, taken, stored, steady, clean>>

SamplesNext ==
  \/ BeginPoll \/ NoSession \/ EndDiscovery \/ Guess \/ EndGuessing
  \/ Query \/ QueryAgain \/ SaveSamples \/ Restart
  \/ \E i \in Interfaces :
       NextIndex(i) \/ ComeOrGo(i) \/ \E n \in Rises : CountErrors(i, n)

SamplesSpec == SamplesInit /\ [][SamplesNext]_sampleVars

-----------------------------------------------------------------------------
\* Mutant of Delta: a counter that is smaller now has wrapped.
DeltaAlwaysWrapping(previous, current) ==
  IF current >= previous THEN current - previous ELSE Modulus - previous + current

\* counter32_delta: a counter that is smaller now has wrapped if it was near its end, and
\* was restarted otherwise.
Delta(previous, current) ==
  CASE current >= previous -> current - previous
    [] current < previous /\ previous >= Modulus - 1 - Margin -> Modulus - previous + current
    [] OTHER -> 0

\* The difference that the spikes and the port health of an interface are computed from.
PortDelta(samples) ==
  IF Len(samples) < 2 THEN 0 ELSE Delta(samples[2].errors, samples[1].errors)

\* No difference is larger than what happened, but for a restart just below the end of the
\* counter; it is exact unless the device restarted or the counter went round from afar.
DeltasAreTrue ==
  \A i \in Interfaces :
    LET s == stored[i]
        rise == s[1].total - s[2].total
    IN  Len(s) = 2 /\ ~s[1].lost /\ ~s[2].lost =>
          /\ PortDelta(s) <= rise + (IF s[1].restarts = s[2].restarts THEN 0 ELSE Margin + 1)
          /\ s[1].restarts = s[2].restarts /\ rise < Modulus
               /\ (s[1].errors >= s[2].errors \/ s[2].errors >= Modulus - 1 - Margin)
             => PortDelta(s) = rise

\* An agent that answers every request and goes through its table in order has every
\* interface sampled that is there throughout, up to the last one its discovery came to
\* when it had sent all of its requests.
EveryInterfaceIsSampled ==
  stage \in {"query", "again"} /\ todo = <<>> /\ clean /\ agent = "sound" =>
    \A i \in steady : steps < MaxSteps \/ i <= cursor => \E k \in DOMAIN taken : taken[k].index = i

SampledOnce == \A j, k \in DOMAIN taken : taken[j].index = taken[k].index => j = k

\* What the samples say of a device is so, as far as its answers arrived: the differences
\* of its counters, and every interface sampled once.
SamplesAreTrue == DeltasAreTrue /\ EveryInterfaceIsSampled /\ SampledOnce
=============================================================================
