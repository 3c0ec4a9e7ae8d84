----------------------------- MODULE PortJournal -----------------------------
(***************************************************************************)
(* The ports through which machines communicate: the committed buffers and *)
(* wiring (PortState), the journal a cut's port actions go to              *)
(* (PortJournal), its branches for the forks made within the cut, and the  *)
(* cut itself: its snapshot, its nested cuts, its joins, its commit and    *)
(* its wait for a change.                                                  *)
(*                                                                         *)
(* A machine is its path, a sequence of keys, and has one input and one    *)
(* output.  A wire leads from an end to an end and is owned by a machine.  *)
(* The default diagnostics wiring is off, as a configuration may have it.  *)
(* A port action outside a cut is a cut of that one action.  A value is    *)
(* told from others by where it comes from: the machine that wrote it, a   *)
(* putback, or the runtime.                                                *)
(***************************************************************************)
EXTENDS Integers, FiniteSets, Sequences, SequencesExt

CONSTANTS
    Machines,    \* the machines' paths
    Turns,       \* the machines whose turns run at once, none below another
    Wires,       \* the wires machines may own
    FirstWires,  \* the wires there are at first
    FirstItems,  \* for each machine, what its input holds at first
    Calls,       \* for each turn, what the bodies of its cuts do
    ClearsSent,  \* whether a fork clears what its cut had sent to before it
    MaxCuts,     \* cuts of each turn, reruns aside
    MaxSteps,    \* for each turn, port actions in one run of a cut
    MaxScopes,   \* forks, and nested cuts, in one run of a cut
    Admits,      \* the inputs to which the runtime delivers by itself
    MaxAdmits    \* how often it does

VARIABLES
    buffers,   \* PortState.buffers: each input's head sequence and items
    wiring,    \* PortState.wiring: the wires owned
    revision,  \* PortState.wiring_revision
    snap,      \* for each turn, its cut's snapshot of the three
    cut,       \* for each turn, its cut's journal, or none
    fork,      \* for each turn, the fork made within its cut, or none
    saved,     \* for each turn, the checkpoints of its and its fork's
               \* nested cut
    obs,       \* for each turn, PortObservations: what its cut observed
    seen,      \* for each turn, BranchReads: what its fork read
    status,    \* for each turn, how its cut stands
    undone,    \* for each turn, what its rolled back nested cuts had done
    steps, scopes, cuts, admits

vars == <<buffers, wiring, revision, snap, cut, fork, saved, obs, seen,
          status, undone, steps, scopes, cuts, admits>>

----------------------------------------------------------------------------
(* Paths, and the positions of a journal.                                  *)

Below(top, m) == IsPrefix(top, m)

End(b) == b.head + Len(b.items)

NoCursor == [start |-> -1, next |-> -1, tail |-> -1]

NoTail == -1

(* "flag" is the cut's "observed", which says that a change could wake it. *)
NoReads == [reads |-> [m \in Machines |-> NoCursor],
            surveys |-> {}, wiring |-> FALSE, flag |-> FALSE]

NoneSeen == [buffers |-> {}, wiring |-> FALSE]

(* The journal of a cut that begins: PortJournal::new.  "log" lists the    *)
(* calls made with their answers, for the properties.                      *)
NewJournal ==
    [wires |-> wiring, edits |-> <<>>,
     cursors |-> [m \in Machines |-> NoCursor],
     put |-> [m \in Machines |-> [changes |-> 0, items |-> <<>>]],
     appends |-> <<>>, log |-> <<>>]

NoJournal == [wires |-> {}]

NoFork == [machine |-> <<"none">>]

Back == <<"back">>

Host == <<"host">>

Forked(t) == fork[t] # NoFork

InCut(t) == cut[t] # NoJournal

Larger(i, j) == IF i < j THEN j ELSE i

(* What a call of turn t works on: on its cut's own thread or on its       *)
(* fork's.                                                                 *)
Work(t, who) ==
    [snap |-> snap[t], obs |-> obs[t], seen |-> seen[t], who |-> who,
     j |-> IF who = "cut" THEN cut[t] ELSE fork[t].j]

----------------------------------------------------------------------------
(* Reading an input.                                                       *)

Cursor(w, m) ==
    IF w.j.cursors[m] # NoCursor THEN w.j.cursors[m]
    ELSE [start |-> w.snap.buffers[m].head,
          next |-> w.snap.buffers[m].head, tail |-> NoTail]

NoteBranchRead(w, m) ==
    IF w.who = "fork" THEN [w EXCEPT !.seen.buffers = @ \cup {m}] ELSE w

(* A plausible slip: the latest read of an input replaces the earlier.     *)
ObserveLatest(w, m, c) ==
    NoteBranchRead([w EXCEPT !.j.cursors[m] = c, !.obs.reads[m] = c], m)

(* Every read counts, the farthest one made of each input.                 *)
Observe(w, m, c) ==
    LET prior == w.obs.reads[m]
        widest == IF prior = NoCursor THEN c
                  ELSE [start |-> prior.start,
                        next |-> Larger(prior.next, c.next),
                        tail |-> Larger(prior.tail, c.tail)]
    IN  NoteBranchRead([w EXCEPT !.j.cursors[m] = c,
                                 !.obs.reads[m] = widest], m)

Answer(w, ok, got) == [w |-> w, ok |-> ok, got |-> got]

ClaimBuffer(w, m, n) ==
    LET b == w.snap.buffers[m]
        c == Cursor(w, m)
        from == c.next - b.head
    IN  IF End(b) - c.next < n
        THEN Answer(Observe(w, m, [c EXCEPT !.tail = End(b)]), FALSE, <<>>)
        ELSE Answer(Observe(w, m, [c EXCEPT !.next = @ + n]), TRUE,
                    SubSeq(b.items, from + 1, from + n))

TakePutBack(w, m, n) ==
    IF n = 0 THEN w
    ELSE [w EXCEPT !.j.put[m] =
              [changes |-> @.changes + 1,
               items |-> SubSeq(@.items, n + 1, Len(@.items))]]

(* The next n values: what the journal put back first, then the buffer's.  *)
Claim(w, m, n) ==
    LET put == w.j.put[m].items
        held == Len(put)
        noted == NoteBranchRead(w, m)
        rest == ClaimBuffer(noted, m, n - held)
    IN  CASE held = 0 -> ClaimBuffer(w, m, n)
          [] held >= n /\ held > 0 ->
                Answer(TakePutBack(noted, m, n), TRUE, SubSeq(put, 1, n))
          [] held < n /\ held > 0 ->
                IF rest.ok
                THEN Answer(TakePutBack(rest.w, m, held), TRUE, put \o rest.got)
                ELSE rest

Available(w, m) ==
    LET held == Len(w.j.put[m].items)
        noted == IF held > 0 THEN NoteBranchRead(w, m) ELSE w
        c == [Cursor(w, m) EXCEPT !.tail = End(w.snap.buffers[m])]
    IN  Answer(Observe(noted, m, c), TRUE, held + c.tail - c.next)

Pending(w, m) ==
    LET held == Len(w.j.put[m].items)
        noted == IF held > 0 THEN NoteBranchRead(w, m) ELSE w
    IN  Answer([noted EXCEPT !.obs.surveys = @ \cup {m}], TRUE,
               held + End(w.snap.buffers[m]) - Cursor(w, m).next)

PutBack(w, m, v) ==
    Answer([w EXCEPT !.j.put[m] = [changes |-> @.changes + 1,
                                   items |-> <<v>> \o @.items]],
           TRUE, <<>>)

----------------------------------------------------------------------------
(* Wiring, and sending along it.                                           *)

ObserveWiring(w) ==
    LET observed == [w EXCEPT !.obs.wiring = TRUE]
    IN  IF w.who = "fork" THEN [observed EXCEPT !.seen.wiring = TRUE]
        ELSE observed

RECURSIVE Follow(_, _, _)

(* The inputs a value at an end reaches, each once for every way there; it *)
(* fails at an output with no wire and where the wiring loops.             *)
Follow(wires, end, route) ==
    LET leading == SetToSeq({w \in wires : w.from = end})
        ways == [i \in DOMAIN leading |->
                    Follow(wires, leading[i].to, route \cup {end})]
    IN  CASE end \in route -> [ok |-> FALSE, to |-> <<>>]
          [] end \notin route /\ leading = <<>> ->
                [ok |-> end.role = "in",
                 to |-> IF end.role = "in" THEN <<end.machine>> ELSE <<>>]
          [] end \notin route /\ leading # <<>> ->
                [ok |-> \A i \in DOMAIN ways : ways[i].ok,
                 to |-> FlattenSeq([i \in DOMAIN ways |-> ways[i].to])]

Output(m) == [role |-> "out", machine |-> m]

Input(m) == [role |-> "in", machine |-> m]

(* A write to the output of m.  One that cannot be routed fails and        *)
(* appends nothing, its look at the wiring still observed.                 *)
Send(w, m, v) ==
    LET route == Follow(w.j.wires, Output(m), {})
        looked == ObserveWiring(w)
        sent == [i \in DOMAIN route.to |-> [to |-> route.to[i], value |-> v]]
    IN  IF route.ok
        THEN Answer([looked EXCEPT !.j.appends = @ \o sent], TRUE, route.to)
        ELSE Answer(looked, FALSE, <<>>)

ApplyEdit(wires, e) ==
    CASE e.kind = "add" -> wires \cup {e.wire}
      [] e.kind = "remove" -> wires \ {e.wire}
      [] e.kind = "reset" -> {w \in wires : w.owner # e.owner}

ApplyEdits(wires, edits) == FoldLeft(ApplyEdit, wires, edits)

Edit(j, e) == [j EXCEPT !.wires = ApplyEdit(@, e), !.edits = Append(@, e)]

Rewire(w, kind, wire) ==
    Answer([w EXCEPT !.j = Edit(@, [kind |-> kind, wire |-> wire])],
           TRUE, <<>>)

OwnedWiring(w, m) ==
    Answer(ObserveWiring(w), TRUE, {x \in w.j.wires : x.owner = m})

----------------------------------------------------------------------------
(* Clearing a machine and its descendants: it claims what their inputs     *)
(* hold, drops what the journal put back there or was to append there, and *)
(* resets their wiring.  The answer is what each input held.               *)

ClaimRest(w, m) ==
    IF w.snap.buffers[m] = [head |-> 0, items |-> <<>>] THEN w
    ELSE ClaimBuffer(w, m, End(w.snap.buffers[m]) - Cursor(w, m).next).w

DropPutBack(put, m) ==
    IF put[m].items = <<>> THEN put[m]
    ELSE [changes |-> put[m].changes + 1, items |-> <<>>]

ClearBelow(w, top) ==
    LET under == {m \in Machines : Below(top, m)}
        claimed == FoldLeft(ClaimRest, ObserveWiring(w), SetToSeq(under))
        owners == SetToSeq({x.owner : x \in w.j.wires} \cap under)
        resets == [i \in DOMAIN owners |->
                      [kind |-> "reset", owner |-> owners[i]]]
        emptied ==
            [claimed.j EXCEPT
                !.put = [m \in Machines |-> IF m \in under
                                            THEN DropPutBack(@, m) ELSE @[m]],
                !.appends = SelectSeq(@, LAMBDA a : a.to \notin under)]
        held == [m \in under |->
                    w.j.put[m].items
                    \o ClaimBuffer(w, m, End(w.snap.buffers[m])
                                         - Cursor(w, m).next).got]
    IN  Answer([claimed EXCEPT !.j = FoldLeft(Edit, emptied, resets)],
               TRUE, held)

----------------------------------------------------------------------------
(* Committing.                                                             *)

Holds(m, c) ==
    LET b == buffers[m]
    IN  c = NoCursor \/ (/\ b.head = c.start
                         /\ c.next <= End(b)
                         /\ c.tail = NoTail \/ End(b) = c.tail)

Ends(b) == [head |-> b.head, next |-> End(b)]

(* PortState::validate.                                                    *)
Validates(t) ==
    /\ obs[t].wiring => revision = snap[t].revision
    /\ \A m \in Machines : Holds(m, obs[t].reads[m]) /\ Holds(m, cut[t].cursors[m])
    /\ \A m \in obs[t].surveys : Ends(buffers[m]) = Ends(snap[t].buffers[m])

Consume(b, c) ==
    LET count == c.next - c.start
    IN  [head |-> b.head + count,
         items |-> SubSeq(b.items, count + 1, Len(b.items))]

(* What is put back takes sequences beyond all the buffer held, so that    *)
(* every cut that read it conflicts.                                       *)
PutAtHead(b, items) ==
    IF items = <<>> THEN b
    ELSE [head |-> End(b), items |-> items \o b.items]

AppendTo(bs, a) == [bs EXCEPT ![a.to].items = Append(@, a.value)]

(* PortState::commit of a journal's claims, putbacks and appends.          *)
CommitBuffers(j) ==
    LET read == [m \in Machines |->
                    PutAtHead(Consume(buffers[m], j.cursors[m]), j.put[m].items)]
    IN  FoldLeft(AppendTo, read, j.appends)

CommitWiring(j) == ApplyEdits(wiring, j.edits)

----------------------------------------------------------------------------
(* Forks within a cut.                                                     *)

(* PortJournal::branch: a branch of the journal, with where it stood.      *)
BranchOf(t, m) ==
    [machine |-> m, j |-> cut[t], base |-> cut[t],
     nested |-> saved[t].cut # NoJournal, undone |-> <<>>]

PutBackSince(j, base, m) == j.put[m].changes # base.put[m].changes

ClaimedSince(t, m) ==
    LET c == cut[t].cursors[m]
        b == fork[t].base.cursors[m]
    IN  c.next > IF b = NoCursor THEN c.start ELSE b.next

ConflictsWith(t) ==
    \/ \E m \in seen[t].buffers :
          ClaimedSince(t, m) \/ PutBackSince(cut[t], fork[t].base, m)
    \/ \E m \in Machines : /\ PutBackSince(fork[t].j, fork[t].base, m)
                           /\ PutBackSince(cut[t], fork[t].base, m)
    \/ seen[t].wiring /\ Len(cut[t].edits) > Len(fork[t].base.edits)

Since(seq, base) == SubSeq(seq, Len(base) + 1, Len(seq))

(* PortJournal::merge, as if the branch's actions ran now.                 *)
MergeAppending(t, appended) ==
    LET j == fork[t].j
        base == fork[t].base
        claimed == {m \in Machines : j.cursors[m].next # base.cursors[m].next}
        changed == {m \in Machines : PutBackSince(j, base, m)}
        joined == [cut[t] EXCEPT
            !.cursors = [m \in Machines |-> IF m \in claimed THEN j.cursors[m]
                                                             ELSE @[m]],
            !.put = [m \in Machines |-> IF m \in changed THEN j.put[m]
                                                         ELSE @[m]],
            !.appends = @ \o appended,
            !.log = @ \o Since(j.log, base.log)]
    IN  FoldLeft(Edit, joined, Since(j.edits, base.edits))

(* A plausible slip: what the cut was to append at the fork is appended    *)
(* again.                                                                  *)
MergedTwice(t) == MergeAppending(t, fork[t].j.appends)

Merged(t) == MergeAppending(t, Since(fork[t].j.appends, fork[t].base.appends))

----------------------------------------------------------------------------
(* The turns' cuts.                                                        *)

Init ==
    /\ buffers = [m \in Machines |-> [head |-> 0, items |-> FirstItems[m]]]
    /\ wiring = FirstWires
    /\ revision = 0
    /\ snap = [t \in Turns |-> NoJournal]
    /\ cut = [t \in Turns |-> NoJournal]
    /\ fork = [t \in Turns |-> NoFork]
    /\ saved = [t \in Turns |-> [cut |-> NoJournal, fork |-> NoJournal]]
    /\ obs = [t \in Turns |-> NoReads]
    /\ seen = [t \in Turns |-> NoneSeen]
    /\ status = [t \in Turns |-> "idle"]
    /\ undone = [t \in Turns |-> <<>>]
    /\ steps = [t \in Turns |-> 0]
    /\ scopes = [t \in Turns |-> [fork |-> 0, nest |-> 0]]
    /\ cuts = [t \in Turns |-> 0]
    /\ admits = 0

(* What a turn's cut holds apart from its snapshot and journal, as a run   *)
(* of its body starts.                                                     *)
Blank(t) ==
    /\ fork' = [fork EXCEPT ![t] = NoFork]
    /\ saved' = [saved EXCEPT ![t] = [cut |-> NoJournal, fork |-> NoJournal]]
    /\ obs' = [obs EXCEPT ![t] = NoReads]
    /\ seen' = [seen EXCEPT ![t] = NoneSeen]
    /\ undone' = [undone EXCEPT ![t] = <<>>]
    /\ steps' = [steps EXCEPT ![t] = 0]
    /\ scopes' = [scopes EXCEPT ![t] = [fork |-> 0, nest |-> 0]]

(* A run of the body starts, on a snapshot of what is committed.           *)
Start(t) ==
    /\ snap' = [snap EXCEPT ![t] = [buffers |-> buffers, revision |-> revision]]
    /\ cut' = [cut EXCEPT ![t] = NewJournal]
    /\ status' = [status EXCEPT ![t] = "running"]
    /\ Blank(t)

(* The cut is over.                                                        *)
Finish(t) ==
    /\ snap' = [snap EXCEPT ![t] = NoJournal]
    /\ cut' = [cut EXCEPT ![t] = NoJournal]
    /\ status' = [status EXCEPT ![t] = "idle"]
    /\ Blank(t)

Begin(t) ==
    /\ status[t] = "idle"
    /\ cuts[t] < MaxCuts
    /\ cuts' = [cuts EXCEPT ![t] = @ + 1]
    /\ Start(t)
    /\ UNCHANGED <<buffers, wiring, revision, admits>>

(* The machines a thread of the turn reaches: the cut's own thread reaches *)
(* the turn's machine and those below it, a forked one and those below     *)
(* that aside; the fork reaches its machine and those below.               *)
Reaches(t, who) ==
    IF who = "fork" THEN {m \in Machines : Below(fork[t].machine, m)}
    ELSE {m \in Machines : /\ Below(t, m)
                           /\ Forked(t) => ~Below(fork[t].machine, m)}

(* A call of the body or its fork, whose answer a is.                      *)
Call(t, who, kind, m, arg, a) ==
    LET made == [call |-> kind, on |-> m, arg |-> arg, at |-> steps[t],
                 ok |-> a.ok, got |-> a.got]
        j == [a.w.j EXCEPT !.log = Append(@, made)]
    IN  /\ steps' = [steps EXCEPT ![t] = @ + 1]
        /\ IF who = "cut"
           THEN cut' = [cut EXCEPT ![t] = j] /\ UNCHANGED fork
           ELSE fork' = [fork EXCEPT ![t].j = j] /\ UNCHANGED cut
        /\ obs' = [obs EXCEPT ![t] =
                      [a.w.obs EXCEPT !.flag = @ \/ kind # "unread"]]
        /\ seen' = [seen EXCEPT ![t] = a.w.seen]
        /\ UNCHANGED <<buffers, wiring, revision, snap, saved, status, undone,
                       scopes, cuts, admits>>

MayCall(t, who, kind, m) ==
    /\ status[t] = "running"
    /\ who = "fork" => Forked(t)
    /\ kind \in Calls[t]
    /\ steps[t] < MaxSteps[t]
    /\ m \in Reaches(t, who)

Read(t, who, m, n) ==
    /\ MayCall(t, who, "read", m)
    /\ Call(t, who, "read", m, n, Claim(Work(t, who), m, n))

Unread(t, who, m) ==
    /\ MayCall(t, who, "unread", m)
    /\ Call(t, who, "unread", m, Back, PutBack(Work(t, who), m, Back))

Count(t, who, m) ==
    /\ MayCall(t, who, "count", m)
    /\ Call(t, who, "count", m, 0, Available(Work(t, who), m))

Survey(t, who, m) ==
    /\ MayCall(t, who, "survey", m)
    /\ Call(t, who, "survey", m, 0, Pending(Work(t, who), m))

Write(t, who, m) ==
    /\ MayCall(t, who, "write", m)
    /\ Call(t, who, "write", m, m, Send(Work(t, who), m, m))

WireAdd(t, who, wire) ==
    /\ MayCall(t, who, "wire_add", wire.owner)
    /\ Call(t, who, "wire_add", wire.owner, wire,
            Rewire(Work(t, who), "add", wire))

WireDel(t, who, wire) ==
    /\ MayCall(t, who, "wire_del", wire.owner)
    /\ Call(t, who, "wire_del", wire.owner, wire,
            Rewire(Work(t, who), "remove", wire))

WireList(t, who, m) ==
    /\ MayCall(t, who, "wire_list", m)
    /\ Call(t, who, "wire_list", m, 0, OwnedWiring(Work(t, who), m))

CallsOf(j) == {j.log[i].at : i \in DOMAIN j.log}

(* A machine clears once no machine below it is forked.                    *)
Clear(t, who, m) ==
    /\ MayCall(t, who, "clear", m)
    /\ who = "cut" /\ Forked(t) => ~Below(m, fork[t].machine)
    /\ who = "fork" /\ ~ClearsSent =>
          \A i \in DOMAIN fork[t].base.appends :
              ~Below(m, fork[t].base.appends[i].to)
    /\ Call(t, who, "clear", m, CallsOf(Work(t, who).j),
            ClearBelow(Work(t, who), m))

----------------------------------------------------------------------------
(* Scopes within a cut: its fork, and its and its fork's nested cut.       *)

MayScope(t, kind) ==
    /\ status[t] = "running"
    /\ kind \in Calls[t]
    /\ scopes[t][kind] < MaxScopes
    /\ scopes' = [scopes EXCEPT ![t][kind] = @ + 1]

Fork(t, m) ==
    /\ MayScope(t, "fork")
    /\ ~Forked(t)
    /\ Below(t, m) /\ m # t
    /\ fork' = [fork EXCEPT ![t] = BranchOf(t, m)]
    /\ seen' = [seen EXCEPT ![t] = NoneSeen]
    /\ UNCHANGED <<buffers, wiring, revision, snap, cut, saved, obs, status,
                   undone, steps, cuts, admits>>

(* The fork joins in the scope that made it.  Where its branch does not    *)
(* merge in a serial order, the cut runs again whatever its body still     *)
(* does.  A branch whose appends are fewer than at the fork ends the turn  *)
(* with a panic, which is not followed.                                    *)
Join(t) ==
    /\ status[t] = "running" /\ Forked(t)
    /\ saved[t].fork = NoJournal
    /\ fork[t].nested = (saved[t].cut # NoJournal)
    /\ Len(fork[t].j.appends) >= Len(fork[t].base.appends)
    /\ UNCHANGED <<buffers, wiring, revision, cuts, admits>>
    /\ IF ConflictsWith(t) THEN Start(t)
       ELSE /\ cut' = [cut EXCEPT ![t] = Merged(t)]
            /\ undone' = [undone EXCEPT ![t] =
                  @ \o [i \in DOMAIN fork[t].undone |->
                           cut[t].log \o fork[t].undone[i]]]
            /\ fork' = [fork EXCEPT ![t] = NoFork]
            /\ seen' = [seen EXCEPT ![t] = NoneSeen]
            /\ UNCHANGED <<snap, saved, obs, status, steps, scopes>>

Nest(t, who) ==
    /\ MayScope(t, "nest")
    /\ who = "fork" => Forked(t)
    /\ saved[t][who] = NoJournal
    /\ saved' = [saved EXCEPT ![t][who] = Work(t, who).j]
    /\ UNCHANGED <<buffers, wiring, revision, snap, cut, fork, obs, seen,
                   status, undone, steps, cuts, admits>>

(* The forks made within a nested cut have joined by its end.              *)
MayEndNest(t, who) ==
    /\ status[t] = "running"
    /\ saved[t][who] # NoJournal
    /\ who = "cut" /\ Forked(t) => ~fork[t].nested
    /\ saved' = [saved EXCEPT ![t][who] = NoJournal]
    /\ UNCHANGED <<buffers, wiring, revision, snap, obs, seen, status, steps,
                   scopes, cuts, admits>>

Keep(t, who) ==
    /\ MayEndNest(t, who)
    /\ UNCHANGED <<cut, fork, undone>>

(* A failed nested cut returns the journal to its checkpoint; the reads    *)
(* stay observed.                                                          *)
Rollback(t, who) ==
    /\ MayEndNest(t, who)
    /\ IF who = "cut"
       THEN /\ cut' = [cut EXCEPT ![t] = saved[t].cut]
            /\ undone' = [undone EXCEPT ![t] = Append(@, cut[t].log)]
            /\ UNCHANGED fork
       ELSE /\ fork' = [fork EXCEPT
                  ![t].j = saved[t].fork,
                  ![t].undone = Append(@, Since(fork[t].j.log,
                                                fork[t].base.log))]
            /\ UNCHANGED <<cut, undone>>

----------------------------------------------------------------------------
(* How a cut ends.                                                         *)

MayEnd(t) ==
    /\ status[t] = "running"
    /\ ~Forked(t)
    /\ saved[t].cut = NoJournal
    /\ UNCHANGED <<cuts, admits>>

Commit(t) ==
    /\ MayEnd(t)
    /\ IF Validates(t)
       THEN /\ buffers' = CommitBuffers(cut[t])
            /\ wiring' = CommitWiring(cut[t])
            /\ revision' = IF cut[t].edits = <<>> THEN revision ELSE revision + 1
            /\ Finish(t)
       ELSE Start(t) /\ UNCHANGED <<buffers, wiring, revision>>

(* The body asks to run again once what it observed has changed; a body    *)
(* that observed nothing fails instead.                                    *)
Retry(t) ==
    /\ "retry" \in Calls[t]
    /\ MayEnd(t)
    /\ IF obs[t].flag
       THEN /\ status' = [status EXCEPT ![t] = "waiting"]
            /\ UNCHANGED <<snap, cut, fork, saved, obs, seen, undone, steps,
                           scopes>>
       ELSE Finish(t)
    /\ UNCHANGED <<buffers, wiring, revision>>

Wake(t) ==
    /\ status[t] = "waiting"
    /\ ~Validates(t)
    /\ Start(t)
    /\ UNCHANGED <<buffers, wiring, revision, cuts, admits>>

(* The body fails otherwise: nothing it did commits.                       *)
Abandon(t) ==
    /\ "fail" \in Calls[t]
    /\ MayEnd(t)
    /\ Finish(t)
    /\ UNCHANGED <<buffers, wiring, revision>>

(* The runtime delivers a value by itself, outside any transaction; where  *)
(* it cannot be routed it waits in the input itself.                       *)
Admit(m) ==
    LET route == Follow(wiring, Input(m), {})
        to == IF route.ok THEN route.to ELSE <<m>>
    IN  /\ admits < MaxAdmits
        /\ admits' = admits + 1
        /\ buffers' = FoldLeft(AppendTo, buffers,
                               [i \in DOMAIN to |-> [to |-> to[i], value |-> Host]])
        /\ UNCHANGED <<wiring, revision, snap, cut, fork, saved, obs, seen,
                       status, undone, steps, scopes, cuts>>

Threads == {"cut", "fork"}

Next ==
    \/ \E t \in Turns :
         \/ Begin(t) \/ Join(t) \/ Commit(t) \/ Retry(t) \/ Wake(t) \/ Abandon(t)
         \/ \E m \in Machines : Fork(t, m)
         \/ \E who \in Threads :
              \/ Nest(t, who) \/ Keep(t, who) \/ Rollback(t, who)
              \/ \E m \in Machines :
                   \/ \E n \in 1..2 : Read(t, who, m, n)
                   \/ Unread(t, who, m) \/ Write(t, who, m)
                   \/ Count(t, who, m) \/ Survey(t, who, m)
                   \/ WireList(t, who, m) \/ Clear(t, who, m)
              \/ \E w \in Wires : WireAdd(t, who, w) \/ WireDel(t, who, w)
    \/ \E m \in Admits : Admit(m)

Spec == Init /\ [][Next]_vars

----------------------------------------------------------------------------
(* What the calls of a cut mean when they run one after the other, alone:  *)
(* an input is a queue, a putback goes to its head, and what is written    *)
(* arrives once the cut ends.  A clear drops what it found in the inputs   *)
(* and what the calls before it, as its thread saw them, had written.      *)

Drop(q, n) == SubSeq(q, n + 1, Len(q))

Redo(s, c) ==
    LET q == s.items[c.on]
        enough == Len(q) >= c.arg
        route == Follow(s.wires, Output(c.on), {})
        under == {m \in Machines : Below(c.on, m)}
    IN  CASE c.call = "read" ->
               [s EXCEPT !.ok = @ /\ c.ok = enough
                                  /\ (enough => c.got = SubSeq(q, 1, c.arg)),
                         !.items[c.on] = IF enough THEN Drop(@, c.arg) ELSE @]
          [] c.call = "unread" -> [s EXCEPT !.items[c.on] = <<c.arg>> \o @]
          [] c.call \in {"count", "survey"} -> [s EXCEPT !.ok = @ /\ c.got = Len(q)]
          [] c.call = "write" ->
               [s EXCEPT !.ok = @ /\ c.ok = route.ok
                                  /\ (route.ok => c.got = route.to),
                         !.out = IF route.ok
                                 THEN @ \o [i \in DOMAIN route.to |->
                                       [to |-> route.to[i], value |-> c.arg,
                                        at |-> c.at]]
                                 ELSE @]
          [] c.call = "wire_add" -> [s EXCEPT !.wires = @ \cup {c.arg}]
          [] c.call = "wire_del" -> [s EXCEPT !.wires = @ \ {c.arg}]
          [] c.call = "wire_list" ->
               [s EXCEPT !.ok = @ /\ c.got = {w \in s.wires : w.owner = c.on}]
          [] c.call = "clear" ->
               [s EXCEPT !.ok = @ /\ \A m \in under : IsPrefix(c.got[m], s.items[m]),
                         !.items = [m \in Machines |->
                                      IF m \in under THEN Drop(@[m], Len(c.got[m]))
                                      ELSE @[m]],
                         !.out = SelectSeq(@, LAMBDA a : \/ a.to \notin under
                                                         \/ a.at \notin c.arg),
                         !.wires = {w \in @ : w.owner \notin under}]

Serially(log) ==
    FoldLeft(Redo, [ok |-> TRUE, wires |-> wiring, out |-> <<>>,
                    items |-> [m \in Machines |-> buffers[m].items]], log)

Arrived(s, m) ==
    LET here == SelectSeq(s.out, LAMBDA a : a.to = m)
    IN  s.items[m] \o [i \in DOMAIN here |-> here[i].value]

----------------------------------------------------------------------------
(* Whenever PortState::validate accepts a cut, everything the cut was told *)
(* still holds: made again now, one after the other, on what is committed, *)
(* its calls give the same answers, those of its joined forks in the place *)
(* of their joins, and those that a failed nested cut rolled back too.  So *)
(* a cut commits only answers that stand, and one that waits for a change  *)
(* would have failed again.                                                *)
ValidatedReadsHold ==
    \A t \in Turns :
        InCut(t) /\ ~Forked(t) /\ Validates(t) =>
            /\ Serially(cut[t].log).ok
            /\ \A i \in DOMAIN undone[t] : Serially(undone[t][i]).ok

(* A cut that may commit leaves the inputs and the wiring exactly as its   *)
(* calls, made alone at the commit, would: no value lost, repeated or out  *)
(* of order, whatever others sent, put back or rewired since the cut's     *)
(* snapshot, and whatever its forks did on their branches (PortState::     *)
(* commit and PortJournal::merge).                                         *)
CommitsAreSerial ==
    \A t \in Turns :
        InCut(t) /\ ~Forked(t) /\ Validates(t) =>
            LET alone == Serially(cut[t].log)
                left == CommitBuffers(cut[t])
            IN  /\ \A m \in Machines : left[m].items = Arrived(alone, m)
                /\ CommitWiring(cut[t]) = alone.wires

=============================================================================
