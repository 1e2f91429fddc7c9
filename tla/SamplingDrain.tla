---------------------------- MODULE SamplingDrain ----------------------------
(***************************************************************************)
(* The drains of MCP servers (drainViaSampling in src/memory/mcp/          *)
(* handler.ts) beside those of DrainWorkers: the server claims events from *)
(* the daemon, has the host's model summarise them, and writes the result  *)
(* back, each by an RPC of src/memory/client.ts that gives up after 1500   *)
(* ms.  The daemon's handler knows nothing of that: it runs to its end.    *)
(* So the server may already be releasing an event, or be done with it,    *)
(* while the record_summary it gave up on still writes.                    *)
(*                                                                         *)
(* Abstracted: the status probes and the cache RPCs, which touch no event  *)
(* (a failing one is one more way for the model not to answer); claiming   *)
(* is one step here, what other requests of the daemon do inside its       *)
(* transaction being the subject of DrainWorkers.                          *)
(***************************************************************************)
EXTENDS DrainWorkers

CONSTANTS
    Host,        (* drainViaSampling invocations                              *)
    MaxCalls,    (* bound: requests of theirs the daemon handles at a time    *)
    MaxFaults    (* bound: requests timed out or never delivered, hosts gone  *)

ASSUME SamplingAssumption ==
    /\ None \notin Host
    /\ MaxCalls \in Nat /\ MaxFaults \in Nat

Call == 1..MaxCalls

VARIABLES
    at,        \* where each host's drain is
    bag,       \* the events its claim returned that it has not settled
    now,       \* the event of its current loop iteration
    calls,     \* the requests the daemon is handling
    strayed,   \* history: claimed events their host has lost sight of
    faults     \* history: how many faults, for the bound

hostVars == <<at, bag, now, calls, strayed, faults>>
allVars == <<vars, hostVars>>

At == {"idle", "claiming", "next", "recording", "releasing"}
Waiting == {"claiming", "recording", "releasing"}

\* A handler is at its first statement, or past one of its awaits; `by' is the host that
\* waits for its answer, None when the host has given up.
CallStep == {"none", "claim", "record", "embed", "put", "mark", "skip", "read", "write"}
Request(step, h, e) == [step |-> step, by |-> h, ev |-> e, rid |-> None, seen |-> 0]
NoCall == Request("none", None, None)

HostInit ==
    /\ Init
    /\ at = [h \in Host |-> "idle"]
    /\ bag = [h \in Host |-> {}]
    /\ now = [h \in Host |-> None]
    /\ calls = [c \in Call |-> NoCall]
    /\ strayed = {}
    /\ faults = 0

-----------------------------------------------------------------------------
(* The host's side. *)

Free(c) == calls[c].step = "none" /\ \A b \in 1..(c - 1) : calls[b].step # "none"

\* client.send: the request reaches the daemon, the host waits for the answer.
Send(h, step, e) ==
    \E c \in Call :
        /\ Free(c)
        /\ calls' = [calls EXCEPT ![c] = Request(step, h, e)]

Go(h, where) == at' = [at EXCEPT ![h] = where]

\* The loop iteration is over: the next event of the claim, or the drain returns.
NextEvent(h) ==
    /\ bag' = [bag EXCEPT ![h] = @ \ {now[h]}]
    /\ now' = [now EXCEPT ![h] = None]
    /\ Go(h, IF bag[h] \subseteq {now[h]} THEN "idle" ELSE "next")

\* An exception leaves drainViaSampling: the rest of the claim is forgotten.
Abandon(h) ==
    /\ bag' = [bag EXCEPT ![h] = {}]
    /\ now' = [now EXCEPT ![h] = None]
    /\ Go(h, "idle")
    /\ strayed' = strayed \cup bag[h]

\* claim_for_summary is sent.
HostClaim(h) ==
    /\ at[h] = "idle"
    /\ WithStatus("raw") # {}
    /\ Send(h, "claim", None)
    /\ Go(h, "claiming")
    /\ UNCHANGED <<vars, bag, now, strayed, faults>>

\* Mutant: after an error of the model the loop goes on to the next event.
SampleForgets(h) ==
    /\ at[h] = "next"
    /\ \E e \in bag[h] :
        /\ \A f \in bag[h] : e <= f
        /\ \/ /\ Send(h, "record", e)
              /\ Go(h, "recording")
              /\ now' = [now EXCEPT ![h] = e]
              /\ UNCHANGED bag
           \/ /\ bag' = [bag EXCEPT ![h] = @ \ {e}]
              /\ Go(h, IF bag[h] = {e} THEN "idle" ELSE "next")
              /\ UNCHANGED <<now, calls>>
    /\ UNCHANGED <<vars, strayed, faults>>

\* The host's model answers for the next event, and the text is sent; or an error is
\* caught, and release_summary is sent, terminal (skip) or retryable (read, write).
HostSample(h) ==
    /\ at[h] = "next"
    /\ \E e \in bag[h] :
        /\ \A f \in bag[h] : e <= f
        /\ now' = [now EXCEPT ![h] = e]
        /\ \/ Send(h, "record", e) /\ Go(h, "recording")
           \/ \E step \in {"read", "skip"} : Send(h, step, e) /\ Go(h, "releasing")
    /\ UNCHANGED <<vars, bag, strayed, faults>>

\* Nobody waits for the answer of h's request any more.
Late(r) == [r EXCEPT !.by = None]
GiveUp(h) ==
    calls' = [c \in Call |-> IF calls[c].by = h THEN Late(calls[c]) ELSE calls[c]]

\* "memory client: timeout".  A claim or a release throws out of the drain; the error of a
\* record_summary is caught and counts as retryable.
HostTimeout(h) ==
    /\ faults < MaxFaults
    /\ faults' = faults + 1
    /\ \/ /\ at[h] \in {"claiming", "releasing"}
          /\ GiveUp(h)
          /\ Abandon(h)
       \/ /\ at[h] = "recording"
          /\ \E c \in Call :
              /\ Free(c)
              /\ calls' = [b \in Call |->
                    IF b = c THEN Request("read", h, now[h])
                    ELSE IF calls[b].by = h THEN Late(calls[b])
                    ELSE calls[b]]
          /\ Go(h, "releasing")
          /\ UNCHANGED <<bag, now, strayed>>
    /\ UNCHANGED vars

\* The daemon that handled the request is gone: "connection closed without response",
\* which is not retryable.
HostCutOff(h) ==
    /\ at[h] \in Waiting
    /\ \A c \in Call : calls[c].by # h
    /\ \/ /\ at[h] \in {"claiming", "releasing"}
          /\ Abandon(h)
          /\ UNCHANGED calls
       \/ /\ at[h] = "recording"
          /\ Send(h, "skip", now[h])
          /\ Go(h, "releasing")
          /\ UNCHANGED <<bag, now, strayed>>
    /\ UNCHANGED <<vars, faults>>

\* The MCP server exits; what it asked for is still done.
HostExits(h) ==
    /\ at[h] # "idle"
    /\ faults < MaxFaults
    /\ faults' = faults + 1
    /\ GiveUp(h)
    /\ Abandon(h)
    /\ UNCHANGED vars

-----------------------------------------------------------------------------
(* The daemon's side: one action per await of the three handlers. *)

DaemonMayWrite == ProcWrites(Daemon)
StepCall(c, step) == calls' = [calls EXCEPT ![c].step = step]
EndCall(c) == calls' = [calls EXCEPT ![c] = NoCall]

\* The answer reaches the host if it still waits: a settled event is done with.
AnswerSettled(c) ==
    /\ EndCall(c)
    /\ IF calls[c].by = None THEN UNCHANGED <<at, bag, now>> ELSE NextEvent(calls[c].by)
    /\ UNCHANGED <<strayed, faults>>

\* The handler threw and answers ok: false.  send resolves all the same, and the loop
\* takes the event for recorded.
AnswerFailed(c) ==
    /\ EndCall(c)
    /\ IF calls[c].by = None
       THEN UNCHANGED <<at, bag, now, strayed>>
       ELSE NextEvent(calls[c].by) /\ strayed' = strayed \cup {calls[c].ev}
    /\ UNCHANGED faults

\* Mutant: the claim takes rows that another drain has claimed already.
CallClaimAny(c) ==
    /\ calls[c].step = "claim"
    /\ lock = None
    /\ \E n \in 1..Batch :
        LET S == Oldest(WithStatus("raw") \cup WithStatus("claimed"), n) IN
        /\ SetStatus(S, "claimed")
        /\ IF calls[c].by = None
           THEN strayed' = strayed \cup S /\ UNCHANGED <<at, bag>>
           ELSE /\ bag' = [bag EXCEPT ![calls[c].by] = S]
                /\ Go(calls[c].by, IF S = {} THEN "idle" ELSE "next")
                /\ UNCHANGED strayed
    /\ EndCall(c)
    /\ UNCHANGED <<drainVars, now, faults>>

\* claim_for_summary; without a host to take the answer, nobody knows of the claim.
CallClaim(c) ==
    /\ calls[c].step = "claim"
    /\ lock = None
    /\ \E n \in 1..Batch :
        LET S == Oldest(WithStatus("raw"), n) IN
        /\ SetStatus(S, "claimed")
        /\ IF calls[c].by = None
           THEN strayed' = strayed \cup S /\ UNCHANGED <<at, bag>>
           ELSE /\ bag' = [bag EXCEPT ![calls[c].by] = S]
                /\ Go(calls[c].by, IF S = {} THEN "idle" ELSE "next")
                /\ UNCHANGED strayed
    /\ EndCall(c)
    /\ UNCHANGED <<drainVars, now, faults>>

\* record_summary: recordSummary, the embedding of the text, putEmbedding, the status.
CallRecord(c) ==
    /\ calls[c].step = "record"
    /\ DaemonMayWrite
    /\ \/ /\ InsertSummary(calls[c].ev)
          /\ \E s \in (IF calls[c].ev \in summaries THEN Event ELSE {calls[c].ev}) :
                calls' = [calls EXCEPT ![c].step = "embed", ![c].rid = s]
          /\ UNCHANGED <<at, bag, now, strayed, faults>>
       \/ /\ calls[c].ev \notin Rows
          /\ AnswerFailed(c)
          /\ UNCHANGED storeVars
    /\ UNCHANGED drainVars

CallEmbed(c) ==
    /\ calls[c].step = "embed"
    /\ \/ StepCall(c, "put") /\ UNCHANGED <<at, bag, now, strayed, faults>>
       \/ AnswerFailed(c)
    /\ UNCHANGED vars

CallPut(c) ==
    /\ calls[c].step = "put"
    /\ DaemonMayWrite
    /\ \/ /\ PutVector(calls[c].rid, calls[c].ev)
          /\ StepCall(c, "mark")
          /\ UNCHANGED <<at, bag, now, strayed, faults>>
       \/ /\ calls[c].rid \notin summaries
          /\ AnswerFailed(c)
          /\ UNCHANGED storeVars
    /\ UNCHANGED drainVars

CallMark(c) ==
    /\ calls[c].step = "mark"
    /\ DaemonMayWrite
    /\ SetStatus({calls[c].ev}, "summarized")
    /\ AnswerSettled(c)
    /\ UNCHANGED drainVars

\* release_summary, terminal.
CallSkip(c) ==
    /\ calls[c].step = "skip"
    /\ DaemonMayWrite
    /\ SetStatus({calls[c].ev}, "skipped")
    /\ AnswerSettled(c)
    /\ UNCHANGED drainVars

\* release_summary, retryable: releaseClaimed in its two statements.
CallRead(c) ==
    /\ calls[c].step = "read"
    /\ calls' = [calls EXCEPT ![c].step = "write", ![c].seen = attempts[calls[c].ev]]
    /\ UNCHANGED <<vars, at, bag, now, strayed, faults>>

CallWrite(c) ==
    /\ calls[c].step = "write"
    /\ DaemonMayWrite
    /\ WriteRelease(calls[c].ev, calls[c].seen)
    /\ AnswerSettled(c)
    /\ UNCHANGED drainVars

\* The daemon stops with its drains, and its handlers with it.
DaemonStops ==
    /\ Stop(Daemon)
    /\ calls' = [c \in Call |-> NoCall]
    /\ UNCHANGED <<at, bag, now, strayed, faults>>

-----------------------------------------------------------------------------
HostStep(h) ==
    \/ HostClaim(h) \/ HostSample(h)
    \/ HostTimeout(h) \/ HostCutOff(h) \/ HostExits(h)

HandlerStep(c) ==
    \/ CallClaim(c)
    \/ CallRecord(c) \/ CallEmbed(c) \/ CallPut(c) \/ CallMark(c)
    \/ CallSkip(c) \/ CallRead(c) \/ CallWrite(c)

\* The rest of the system: the daemon's own drains and housekeeping, other processes.
OtherStep ==
    /\ \/ DaemonWrites
       \/ PruneSummaries
       \/ \E d \in Drainer : ClaimSelect(d) \/ DrainStep(d)
       \/ \E p \in Procs \ {Daemon} : Stop(p)
    /\ UNCHANGED hostVars

HostNext ==
    \/ \E h \in Host : HostStep(h)
    \/ \E c \in Call : HandlerStep(c)
    \/ DaemonStops
    \/ OtherStep

HostSpec == HostInit /\ [][HostNext]_allVars

-----------------------------------------------------------------------------
\* "Concurrent claimers will not see overlapping rows", for every kind of drain: no event is
\* in the hands of two hosts, or of a host and a drain, whatever comes late.
HostsExclusive ==
    /\ ClaimExclusive
    /\ \A g, h \in Host : g # h => bag[g] \cap bag[h] = {}
    /\ \A h \in Host, d \in Drainer : bag[h] \cap Held(d) = {}

\* A claimed event is in some drain's hands, being settled by a handler, or was lost sight
\* of in one of the ways `strayed' and `orphaned' name: an exception that ends the drain, an
\* answer nobody waits for or looks at, a process that is gone.  An error of the model, or a
\* record_summary that times out, is none of them.
ClaimsTraced ==
    WithStatus("claimed") \subseteq
        orphaned \cup strayed
        \cup (UNION {Held(d) : d \in Drainer}) \cup (UNION {bag[h] : h \in Host})

-----------------------------------------------------------------------------
(* The inductive strengthening.  IInv does not survive the hosts: a          *)
(* record_summary that nobody waits for marks an event summarized that a     *)
(* drain has in hand.  What survives is who may settle an event: a drain     *)
(* that picked it, a host that claimed it, or a release_summary nobody waits *)
(* for, and never two of them.                                               *)

Records(c) == calls[c].step \in {"record", "embed", "put", "mark"}
Releases(c) == calls[c].step \in {"skip", "read", "write"}
Loose(c) == Releases(c) /\ calls[c].by = None

InHand(e) ==
    \/ \E d \in Drainer : e \in todo[d]
    \/ \E h \in Host : e \in bag[h]
    \/ \E c \in Call : Loose(c) /\ calls[c].ev = e

Requests ==
    [step : CallStep, by : Host \cup {None}, ev : Event \cup {None},
     rid : Event \cup {None}, seen : 0..MaxAttempts]

HostTypeOK ==
    /\ TypeOK
    /\ at \in [Host -> At]
    /\ bag \in [Host -> SUBSET Event]
    /\ now \in [Host -> Event \cup {None}]
    /\ calls \in [Call -> Requests]
    /\ strayed \in SUBSET Event
    /\ faults \in 0..MaxFaults

\* A host has claimed events only inside its loop, and waits for one request at a time,
\* about the event of its iteration.
BagAtWork == \A h \in Host : at[h] \in {"idle", "claiming"} => bag[h] = {}
NowInBag == \A h \in Host : at[h] \in {"recording", "releasing"} => now[h] \in bag[h]
OneCall == \A b, c \in Call : calls[b].by = calls[c].by /\ calls[b].by # None => b = c
CallOfHost ==
    \A c \in Call : calls[c].by # None =>
        \/ calls[c].step = "claim" /\ at[calls[c].by] = "claiming"
        \/ Records(c) /\ at[calls[c].by] = "recording" /\ calls[c].ev = now[calls[c].by]
        \/ Releases(c) /\ at[calls[c].by] = "releasing" /\ calls[c].ev = now[calls[c].by]

\* What a request is about was captured; past recordSummary the summary is there as long
\* as the row is; releaseClaimed read a count below the limit.
CallCaptured == \A c \in Call : Records(c) \/ Releases(c) => calls[c].ev \in 1..(nextId - 1)
CallRecorded ==
    \A c \in Call : calls[c].step \in {"embed", "put", "mark"} =>
        status[calls[c].ev] = "absent" \/ calls[c].ev \in summaries \cup pruned
CallSeenLow == \A c \in Call : calls[c].step = "write" => calls[c].seen < MaxAttempts

\* Nobody shares an event with another.
BagsApart ==
    /\ \A g, h \in Host : g # h => bag[g] \cap bag[h] = {}
    /\ \A h \in Host, d \in Drainer : bag[h] \cap todo[d] = {}
LooseApart ==
    \A c \in Call : Loose(c) =>
        /\ \A d \in Drainer : calls[c].ev \notin todo[d]
        /\ \A h \in Host : calls[c].ev \notin bag[h]
        /\ \A b \in Call : Loose(b) /\ calls[b].ev = calls[c].ev => b = c

\* An event in hand is not up for a claim or a retry, save one just selected.
HandsCaptured == \A e \in Event : InHand(e) => e < nextId
HandsStatus ==
    \A e \in Event : InHand(e) =>
        \/ status[e] \in {"claimed", "summarized", "absent"}
        \/ status[e] = "raw" /\ \E d \in Drainer : pc[d] = "claim" /\ e \in todo[d]
HandsAttempts == \A e \in Event : InHand(e) => attempts[e] < MaxAttempts

\* The inductive invariant of hosts and drains together: the drains', the hosts' and the
\* requests' own conditions, then what relates them.
DrainsInv == LockHeld /\ IdleEmpty /\ CurInTodo /\ SeenLow
HostsInv == BagAtWork /\ NowInBag /\ OneCall /\ CallOfHost /\ CallCaptured /\ CallSeenLow
HandsInv ==
    /\ TodoDisjoint /\ BagsApart /\ LooseApart
    /\ HandsCaptured /\ HandsStatus /\ HandsAttempts
HostInv ==
    /\ HostTypeOK /\ DrainsInv /\ HostsInv /\ HandsInv
    /\ Recorded /\ CallRecorded
    /\ Uncaptured /\ AbsentFresh
    /\ SummarizedIsBacked /\ AttemptsLeft /\ ClaimsTraced
=============================================================================
