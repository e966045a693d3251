-------------------------- MODULE TaskStore_proofs --------------------------
(***************************************************************************)
(* For any clients, requests, keys and probes, failing and retrying        *)
(* anywhere, beside any prunes: a task is never merged into another's      *)
(* stream (StoreInv: what a call decided, by what it loaded); a request    *)
(* whose attempts follow one another adds one task (OneTaskInv: its own    *)
(* add is nowhere but where the attempt now is), and is answered with it,  *)
(* unless it was purged meanwhile (OwnInv); a prune does what it read of a *)
(* stream at its head (ReadInv), and ran to its end has finished what it   *)
(* found half done (PruneInv: what it listed was taken, or a purge came    *)
(* first). Where no one prunes, a request's attempts at once take effect   *)
(* once, and the store implements RequestBook (BookInv).                   *)
(***************************************************************************)
EXTENDS TaskStore, SequenceTheorems, WellFoundedInduction, TLAPS

\* A stream is a sequence of pages, whatever they are.
IsStream(s) == s \in Seq({s[i] : i \in DOMAIN s})
StreamsWhole ==
  /\ streams = [h \in Harps |-> streams[h]]
  /\ \A h \in Harps : IsStream(streams[h])

\* A call has its fields.
IsCall(k) ==
  k \in [pc: {k.pc}, request: {k.request}, harp: {k.harp}, probe: {k.probe},
         loaded: {k.loaded}, tries: {k.tries}, seen: {k.seen}, todo: {k.todo},
         unpurged: {k.unpurged}, found: {k.found}]

\* What call k decides on the pages it loaded.
CommandIn(k) ==
  IF k.request.op = "add" THEN [k.request.command EXCEPT !.harp_id = k.harp]
  ELSE k.request.command
Decided(k) == Decide(Folded(k.loaded), k.loaded # <<>>, CommandIn(k))

\* A call about to append has decided to, on what it loaded.
CallDecided(k) ==
  /\ IsCall(k)
  /\ k.pc # "idle" => k.request \in Requests
  /\ k.pc = "append" => Records(Decided(k)) /\ (k.harp \in Harps => IsStream(k.loaded))

StoreInv ==
  /\ StreamsWhole
  /\ NeverMerged
  /\ call = [c \in Clients |-> call[c]]
  /\ answer = [c \in Clients |-> answer[c]]
  /\ \A c \in Clients : CallDecided(call[c])

------------------------------------------------------------------------------
(* Streams and what is decided on them.                                     *)

\* A page appended.
LEMMA AppendedPage ==
  ASSUME NEW s, IsStream(s), NEW page
  PROVE  /\ IsStream(Append(s, page))
         /\ Append(s, page) # <<>>
         /\ Len(s) \in Nat /\ Len(Append(s, page)) = Len(s) + 1
         /\ s = <<>> <=> Len(s) = 0
         /\ DOMAIN s = 1..Len(s) /\ DOMAIN Append(s, page) = 1..(Len(s) + 1)
         /\ \A i \in 1..Len(s) : Append(s, page)[i] = s[i]
         /\ Append(s, page)[Len(s) + 1] = page
<1> DEFINE S == {s[i] : i \in DOMAIN s} \cup {page}
           t == Append(s, page)
<1>1. s \in Seq(S)
  BY DEF IsStream
<1>2. /\ t \in Seq(S) /\ t # <<>> /\ Len(t) = Len(s) + 1
      /\ \A i \in 1..Len(s) : t[i] = s[i]
      /\ t[Len(s) + 1] = page
  BY <1>1, AppendProperties
<1>3. DOMAIN s = 1..Len(s) /\ DOMAIN t = 1..(Len(s) + 1) /\ Len(s) \in Nat
  BY <1>1, <1>2
<1>4. IsStream(t)
  <2>1. \A i \in 1..Len(t) : t[i] \in {t[j] : j \in DOMAIN t}
    BY <1>2, <1>3
  <2> QED BY <1>2, <1>3, <2>1, IsASeq DEF IsStream
<1>5. s = <<>> <=> Len(s) = 0
  BY <1>1, EmptySeq
<1> QED BY <1>2, <1>3, <1>4, <1>5

LEMMA StreamLength ==
  ASSUME NEW s, IsStream(s)
  PROVE  Len(s) \in Nat /\ (s = <<>> <=> Len(s) = 0) /\ DOMAIN s = 1..Len(s)
BY AppendedPage

LEMMA NoStream == IsStream(<<>>) /\ Len(<<>>) = 0 /\ DOMAIN <<>> = {}
BY DEF IsStream

LEMMA OnePage ==
  ASSUME NEW page
  PROVE  IsStream(<<page>>) /\ DOMAIN <<page>> = {1} /\ (<<page>>)[1] = page
<1>1. <<page>> \in Seq({page}) /\ DOMAIN <<page>> = {1} /\ (<<page>>)[1] = page
  OBVIOUS
<1>2. {(<<page>>)[i] : i \in DOMAIN <<page>>} = {page}
  BY <1>1
<1> QED BY <1>1, <1>2 DEF IsStream

\* A stream with no page holds no task.
LEMMA NothingFolded == Folded(<<>>) = NoTask
<1> DEFINE F(f) == f = [n \in 0..Len(<<>>) |->
                          IF n = 0 THEN NoTask
                          ELSE Apply(f[n-1], (<<>>)[n].event, (<<>>)[n].recorded_at)]
           after == CHOOSE f : F(f)
<1>1. Len(<<>>) = 0 /\ 0..Len(<<>>) = {0}
  OBVIOUS
<1>2. F([n \in 0..Len(<<>>) |-> NoTask])
  BY <1>1
<1>3. F(after)
  BY <1>2
<1>4. after[0] = NoTask
  BY <1>1, <1>3
<1> QED BY <1>1, <1>4 DEF Folded

\* What an add records adds, and to nothing; what another command records adds
\* nothing, and to something.
LEMMA DecidedEvent ==
  ASSUME NEW k, k.request \in Requests, Records(Decided(k))
  PROVE  /\ Decided(k).event.type = "TaskAdded" <=> k.loaded = <<>>
         /\ k.request.op = "add" <=> k.loaded = <<>>
<1> DEFINE taken == k.loaded # <<>>
           held == Folded(k.loaded)
           c == CommandIn(k)
<1>1. taken \in BOOLEAN /\ Decided(k) = Decide(held, taken, c)
  BY DEF Decided
<1>2. ~taken => held.harp_id = Empty
  BY NothingFolded DEF NoTask
<1>3. CASE k.request.op = "add"
  <2>1. c.type = "AddTask"
    BY <1>3 DEF CommandIn, Requests, Adds, Prunes, Changes, AddTaskCommands
  <2> HIDE DEF taken, held, c
  <2>2. Decide(held, taken, c) = DecideAdd(taken, c)
    BY <2>1 DEF Decide
  <2>3. ~taken /\ Decided(k).event.type = "TaskAdded"
    BY <1>1, <2>2 DEF DecideAdd, Records, Refused, Recorded, NoEvent, TaskAddedOf
  <2> QED BY <1>3, <2>3 DEF taken
<1>4. CASE k.request.op = "set_status"
  <2>1. c.type = "SetStatus"
    BY <1>4 DEF CommandIn, Requests, Adds, Prunes, Changes, SetStatusCommands
  <2> HIDE DEF taken, held, c
  <2>2. Decide(held, taken, c) = DecideSetStatus(held, c)
    BY <2>1 DEF Decide
  <2>3. held.harp_id # Empty
    BY <1>1, <2>2 DEF DecideSetStatus, LiveRefusal, Records, Refused, NoEvent, Sound
  <2>4. Decided(k) = Moved(held, c)
    BY <1>1, <2>2 DEF DecideSetStatus, Records, Refused, NoEvent
  <2>5. Decided(k).event.type # "TaskAdded"
    BY <2>4 DEF Moved, Recorded, Refused, Unchanged, NoEvent, Deferring, Resting
  <2> QED BY <1>2, <1>4, <2>3, <2>5 DEF taken
<1>5. CASE k.request.op = "prune"
  <2>1. c.type = "RemoveTask"
    BY <1>5 DEF CommandIn, Requests, Adds, Prunes, Changes, RemoveTaskCommands
  <2> HIDE DEF taken, held, c
  <2>2. Decide(held, taken, c) = DecideRemove(held, c)
    BY <2>1 DEF Decide
  <2>3. held.harp_id # Empty
    BY <1>1, <2>2 DEF DecideRemove, LiveRefusal, Records, Refused, NoEvent, Sound
  <2>4. Decided(k).event.type # "TaskAdded"
    BY <1>1, <2>2 DEF DecideRemove, Recorded, Refused, NoEvent
  <2> QED BY <1>2, <1>5, <2>3, <2>4 DEF taken
<1>6. k.request.op \in {"add", "set_status", "prune"}
  BY DEF Requests, Adds, Prunes, Changes
<1> QED BY <1>3, <1>4, <1>5, <1>6

------------------------------------------------------------------------------
(* Calls.                                                                   *)

\* A call that decides nothing yet: over, or on with its request.
Plain(k, c) ==
  /\ IsCall(k)
  /\ k.pc # "append"
  /\ k.pc # "idle" => k.request = call[c].request

\* One call moves on streams that are sound.
LEMMA CallMoves ==
  ASSUME StoreInv, NEW c \in Clients, NEW k, CallDecided(k),
         call' = [call EXCEPT ![c] = k], answer' = [d \in Clients |-> answer'[d]],
         (StreamsWhole /\ NeverMerged)'
  PROVE  StoreInv'
<1>1. \A d \in Clients : call'[d] = IF d = c THEN k ELSE call[d]
  BY DEF StoreInv
<1>2. call' = [d \in Clients |-> call'[d]]
  BY DEF StoreInv
<1> QED BY <1>1, <1>2 DEF StoreInv

LEMMA Going ==
  ASSUME StoreInv, NEW c \in Clients, call[c].pc # "idle", NEW k, Plain(k, c), Goes(c, k),
         (StreamsWhole /\ NeverMerged)'
  PROVE  StoreInv'
<1>1. CallDecided(k)
  BY DEF Plain, CallDecided, StoreInv
<1> QED BY <1>1, CallMoves DEF Goes, StoreInv

LEMMA Ending ==
  ASSUME StoreInv, NEW c \in Clients, NEW said, Ends(c, said), (StreamsWhole /\ NeverMerged)'
  PROVE  StoreInv'
<1>1. CallDecided(Idle)
  BY DEF Idle, IsCall, CallDecided
<1> QED BY <1>1, CallMoves DEF Ends, StoreInv

\* A call that read its stream, and one that found its own add there, keep the
\* rest of what they were.
LEMMA ReadsFields ==
  ASSUME StoreInv, NEW c \in Clients, NEW pc
  PROVE  LET k == Reads(c, pc) IN
         /\ IsCall(k) /\ k.pc = pc /\ k.loaded = Held(c) /\ k.seen = purges[call[c].harp]
         /\ k.request = call[c].request /\ k.harp = call[c].harp /\ k.probe = call[c].probe
         /\ k.tries = call[c].tries /\ k.todo = call[c].todo
         /\ k.unpurged = call[c].unpurged /\ k.found = call[c].found
<1>1. IsCall(call[c])
  BY DEF StoreInv, CallDecided
<1> QED BY <1>1 DEF IsCall, Reads

LEMMA FoundFields ==
  ASSUME StoreInv, NEW c \in Clients
  PROVE  LET k == FoundOwn(c) IN
         /\ IsCall(k) /\ k.pc = "own" /\ k.loaded = <<>> /\ k.seen = purges[call[c].harp]
         /\ k.request = call[c].request /\ k.harp = call[c].harp /\ k.probe = call[c].probe
         /\ k.tries = 0 /\ k.todo = call[c].todo
         /\ k.unpurged = call[c].unpurged /\ k.found = call[c].found
<1>1. IsCall(call[c])
  BY DEF StoreInv, CallDecided
<1> QED BY <1>1 DEF IsCall, FoundOwn, To

LEMMA PlainTo ==
  ASSUME StoreInv, NEW c \in Clients, NEW pc, pc # "append"
  PROVE  /\ Plain(To(c, pc), c)
         /\ Plain([call[c] EXCEPT !.pc = pc, !.tries = @ + 1, !.loaded = <<>>, !.seen = 0], c)
<1>1. IsCall(call[c])
  BY DEF StoreInv, CallDecided
<1> QED BY <1>1 DEF Plain, IsCall, To

LEMMA PlainReads ==
  ASSUME StoreInv, NEW c \in Clients
  PROVE  Plain(FoundOwn(c), c) /\ Plain(Reads(c, "purge"), c)
BY ReadsFields, FoundFields DEF Plain

LEMMA Retrying ==
  ASSUME StoreInv, NEW c \in Clients, call[c].pc # "idle", NEW pc, pc # "append",
         Retries(c, pc), (StreamsWhole /\ NeverMerged)'
  PROVE  StoreInv'
BY PlainTo, Going, Ending DEF Retries

LEMMA AddingOn ==
  ASSUME StoreInv, NEW c \in Clients, call[c].pc # "idle", NEW position,
         Adding(c, position), (StreamsWhole /\ NeverMerged)'
  PROVE  StoreInv'
<1>1. PICK h : Goes(c, [To(c, "load") EXCEPT !.harp = h, !.probe = position])
  BY DEF Adding
<1>2. IsCall(call[c])
  BY DEF StoreInv, CallDecided
<1>3. Plain([To(c, "load") EXCEPT !.harp = h, !.probe = position], c)
  BY <1>2 DEF Plain, IsCall, To
<1> QED BY <1>1, <1>3, Going

LEMMA StreamsStand ==
  ASSUME StoreInv, streams' = streams PROVE (StreamsWhole /\ NeverMerged)'
BY DEF StoreInv, StreamsWhole, NeverMerged

LEMMA CommandDecided ==
  ASSUME NEW c \in Clients
  PROVE  CommandOf(c) = CommandIn(call[c])
BY DEF CommandOf, CommandIn

------------------------------------------------------------------------------
(* A stream is one task's.                                                  *)

LEMMA InitWhole == Init => StoreInv
<1> SUFFICES ASSUME Init PROVE StoreInv
  OBVIOUS
<1>1. ASSUME NEW h \in Harps
      PROVE  /\ IsStream(streams[h])
             /\ \A i \in DOMAIN streams[h] : streams[h][i].event.type = "TaskAdded" <=> i = 1
  <2>1. streams[h] \in {<<>>} \cup OldStreams(h)
    BY DEF Init
  <2>2. CASE streams[h] = <<>>
    BY <2>2, NoStream
  <2>3. CASE streams[h] \in OldStreams(h)
    <3>1. PICK a \in OldTasks :
            streams[h] = <<[event |-> TaskAddedOf([a EXCEPT !.harp_id = h]),
                            recorded_at |-> Old, command_id |-> OldId]>>
      BY <2>3 DEF OldStreams
    <3> DEFINE page == [event |-> TaskAddedOf([a EXCEPT !.harp_id = h]),
                        recorded_at |-> Old, command_id |-> OldId]
    <3>2. page.event.type = "TaskAdded"
      BY DEF TaskAddedOf
    <3> HIDE DEF page
    <3>3. streams[h] = <<page>>
      BY <3>1 DEF page
    <3> QED BY <3>2, <3>3, OnePage
  <2> QED BY <2>1, <2>2, <2>3
<1>2. CallDecided(Idle)
  BY DEF Idle, IsCall, CallDecided
<1>3. streams = [h \in Harps |-> streams[h]]
  BY DEF Init
<1>4. /\ call = [c \in Clients |-> call[c]]
      /\ answer = [c \in Clients |-> answer[c]]
      /\ \A c \in Clients : CallDecided(call[c])
  BY <1>2 DEF Init
<1> QED BY <1>1, <1>3, <1>4 DEF StoreInv, StreamsWhole, NeverMerged

\* A call just begun, on its request.
LEMMA Begun ==
  ASSUME NEW c \in Clients, NEW r \in Sends[c], Begin(c, r)
  PROVE  \E k : /\ Goes(c, k) /\ IsCall(k) /\ k.request = r /\ k.found = NothingFound
                /\ k.pc \in {"list", "load", "look"}
                /\ k.pc = "list" => r.op = "prune"
                /\ k.pc = "look" => r.op = "add" /\ r.key # NoKey
                /\ r.op = "add" => k.probe = 1 /\ k.harp \in Places(r, 1)
                /\ r.op = "add" /\ r.key # NoKey => k.pc = "look"
                /\ r.op = "set_status" => k.harp = r.harp
<1> DEFINE begin == [Idle EXCEPT !.request = r, !.harp = r.harp]
<1>1. CASE r.op = "prune"
  <2> DEFINE k == [begin EXCEPT !.pc = "list"]
  <2>1. Goes(c, k)
    BY <1>1 DEF Begin
  <2>2. IsCall(k) /\ k.pc = "list" /\ k.request = r /\ k.found = NothingFound
    BY DEF Idle, IsCall
  <2> HIDE DEF k
  <2> QED BY <1>1, <2>1, <2>2
<1>2. CASE r.op = "set_status"
  <2> DEFINE k == [begin EXCEPT !.pc = "load"]
  <2>1. Goes(c, k)
    BY <1>2 DEF Begin
  <2>2. /\ IsCall(k) /\ k.pc = "load" /\ k.request = r /\ k.found = NothingFound
        /\ k.harp = r.harp
    BY DEF Idle, IsCall
  <2> HIDE DEF k
  <2> QED BY <1>2, <2>1, <2>2
<1>3. CASE r.op = "add"
  <2> DEFINE pc == IF r.key = NoKey THEN "load" ELSE "look"
  <2>1. PICK h \in Places(r, 1) : Goes(c, [begin EXCEPT !.pc = pc, !.harp = h, !.probe = 1])
    BY <1>3 DEF Begin
  <2>2. /\ pc \in {"load", "look"} /\ (pc = "look" => r.key # NoKey)
        /\ r.key # NoKey => pc = "look"
    OBVIOUS
  <2> HIDE DEF pc
  <2> DEFINE k == [begin EXCEPT !.pc = pc, !.harp = h, !.probe = 1]
  <2>3. /\ IsCall(k) /\ k.pc = pc /\ k.request = r /\ k.found = NothingFound
        /\ k.harp = h /\ k.probe = 1
    BY DEF Idle, IsCall
  <2>4. Goes(c, k)
    BY <2>1
  <2> HIDE DEF k
  <2> QED BY <1>3, <2>2, <2>3, <2>4
<1> QED BY <1>1, <1>2, <1>3 DEF Begin

LEMMA BeginWhole ==
  ASSUME StoreInv, NEW c \in Clients, NEW r \in Sends[c], Begin(c, r)
  PROVE  StoreInv'
<1>1. PICK k : Goes(c, k) /\ IsCall(k) /\ k.pc # "append" /\ k.request = r
  BY Begun
<1>2. r \in Requests
  BY RequestsAssumption
<1>3. CallDecided(k)
  BY <1>1, <1>2 DEF CallDecided
<1>4. streams' = streams
  BY DEF Begin
<1> QED BY <1>1, <1>3, <1>4, CallMoves, StreamsStand DEF Goes, StoreInv

\* The steps that decide nothing and change no stream.
LEMMA ReadsWhole ==
  ASSUME StoreInv, NEW c \in Clients,
         Look(c) \/ ReadOwn(c) \/ List(c) \/ Take(c) \/ LoadPurge(c) \/ Fail(c)
  PROVE  StoreInv'
<1>1. streams' = streams /\ call[c].pc # "idle"
  BY DEF Look, ReadOwn, List, Take, LoadPurge, Fail
<1>2. (StreamsWhole /\ NeverMerged)'
  BY <1>1, StreamsStand
<1>3. IsCall(call[c])
  BY DEF StoreInv, CallDecided
<1>4. CASE Look(c)
  <2>1. CASE Goes(c, FoundOwn(c))
    BY <1>1, <1>2, <2>1, PlainReads, Going
  <2>2. ASSUME NEW h, NEW n, call[c].pc = "look",
               Goes(c, [call[c] EXCEPT !.harp = h, !.probe = n])
        PROVE  StoreInv'
    <3>1. Plain([call[c] EXCEPT !.harp = h, !.probe = n], c)
      BY <1>3, <2>2 DEF Plain, IsCall
    <3> QED BY <1>1, <1>2, <2>2, <3>1, Going
  <2>3. CASE Adding(c, 1)
    BY <1>1, <1>2, <2>3, AddingOn
  <2> QED BY <1>4, <2>1, <2>2, <2>3 DEF Look
<1>5. CASE ReadOwn(c) \/ Fail(c)
  BY <1>2, <1>5, Ending DEF ReadOwn, Fail
<1>6. CASE List(c)
  <2>1. PICK todo, left, found : Goes(c, [To(c, "take") EXCEPT !.todo = todo,
                                            !.unpurged = left, !.found = found])
    BY <1>6 DEF List
  <2>2. Plain([To(c, "take") EXCEPT !.todo = todo, !.unpurged = left, !.found = found], c)
    BY <1>3 DEF Plain, IsCall, To
  <2> QED BY <1>1, <1>2, <2>1, <2>2, Going
<1>7. CASE Take(c)
  <2>1. ASSUME NEW h, Goes(c, [To(c, "load") EXCEPT !.harp = h, !.todo = @ \ {h}])
        PROVE  StoreInv'
    <3>1. Plain([To(c, "load") EXCEPT !.harp = h, !.todo = @ \ {h}], c)
      BY <1>3 DEF Plain, IsCall, To
    <3> QED BY <1>1, <1>2, <2>1, <3>1, Going
  <2>2. ASSUME NEW h, Goes(c, [To(c, "purge_load") EXCEPT !.harp = h, !.unpurged = @ \ {h}])
        PROVE  StoreInv'
    <3>1. Plain([To(c, "purge_load") EXCEPT !.harp = h, !.unpurged = @ \ {h}], c)
      BY <1>3 DEF Plain, IsCall, To
    <3> QED BY <1>1, <1>2, <2>2, <3>1, Going
  <2>3. CASE Ends(c, Said("pruned"))
    BY <1>2, <2>3, Ending
  <2> QED BY <1>7, <2>1, <2>2, <2>3 DEF Take
<1>8. CASE LoadPurge(c)
  <2>1. CASE Goes(c, To(c, "take"))
    BY <1>1, <1>2, <2>1, PlainTo, Going
  <2>2. CASE Goes(c, Reads(c, "purge"))
    BY <1>1, <1>2, <2>2, PlainReads, Going
  <2>3. CASE Retries(c, "purge_load")
    BY <1>1, <1>2, <2>3, Retrying
  <2> QED BY <1>8, <2>1, <2>2, <2>3 DEF LoadPurge
<1> QED BY <1>4, <1>5, <1>6, <1>7, <1>8

\* A call goes to append what it decided on the pages it loaded.
LEMMA Deciding ==
  ASSUME StoreInv, NEW c \in Clients, call[c].pc # "idle",
         Records(Decide(Folded(Held(c)), Held(c) # <<>>, CommandOf(c))),
         Goes(c, Reads(c, "append")),
         (StreamsWhole /\ NeverMerged)'
  PROVE  StoreInv'
<1> DEFINE k == Reads(c, "append")
<1>1. IsCall(call[c]) /\ call[c].request \in Requests
  BY DEF StoreInv, CallDecided
<1>2. /\ IsCall(k) /\ k.pc = "append" /\ k.loaded = Held(c)
      /\ k.request = call[c].request /\ k.harp = call[c].harp
  BY ReadsFields
<1>3. call' = [call EXCEPT ![c] = k] /\ answer' = answer
  BY DEF Goes
<1> HIDE DEF k
<1>4. CommandIn(k) = CommandOf(c)
  BY <1>2 DEF CommandIn, CommandOf
<1>5. Records(Decided(k))
  BY <1>2, <1>4 DEF Decided
<1>6. k.harp \in Harps => IsStream(k.loaded)
  BY <1>2 DEF StoreInv, StreamsWhole, Held
<1>7. CallDecided(k)
  BY <1>1, <1>2, <1>5, <1>6 DEF CallDecided
<1> QED BY <1>3, <1>7, CallMoves DEF StoreInv

LEMMA LoadWhole == ASSUME StoreInv, NEW c \in Clients, Load(c) PROVE StoreInv'
<1> DEFINE held == Held(c)
           d == Decide(Folded(held), held # <<>>, CommandOf(c))
<1>1. streams' = streams /\ call[c].pc # "idle"
  BY DEF Load
<1>2. (StreamsWhole /\ NeverMerged)'
  BY <1>1, StreamsStand
<1>3. \/ Goes(c, FoundOwn(c))
      \/ Records(d) /\ Goes(c, Reads(c, "append"))
      \/ \E said : Ends(c, said)
      \/ Adding(c, call[c].probe + 1)
      \/ Retries(c, "load")
  BY DEF Load
<1>4. CASE Goes(c, FoundOwn(c))
  BY <1>1, <1>2, <1>4, PlainReads, Going
<1>5. CASE Records(d) /\ Goes(c, Reads(c, "append"))
  BY <1>1, <1>2, <1>5, Deciding
<1>6. CASE \E said : Ends(c, said)
  BY <1>2, <1>6, Ending
<1>7. CASE Adding(c, call[c].probe + 1)
  BY <1>1, <1>2, <1>7, AddingOn
<1>8. CASE Retries(c, "load")
  BY <1>1, <1>2, <1>8, Retrying
<1> QED BY <1>3, <1>4, <1>5, <1>6, <1>7, <1>8

\* A removal is decided on a task that is there and live.
LEMMA LoadRemovalWhole == ASSUME StoreInv, NEW c \in Clients, LoadRemoval(c) PROVE StoreInv'
<1> DEFINE held == Held(c)
           d == Decide(Folded(held), held # <<>>, CommandOf(c))
           next == IF Caused(held, CommandId(c)) THEN "purge_load" ELSE "take"
<1>1. streams' = streams /\ call[c].pc # "idle" /\ call[c].request.op = "prune"
  BY DEF LoadRemoval
<1>2. (StreamsWhole /\ NeverMerged)'
  BY <1>1, StreamsStand
<1>3. \/ Goes(c, To(c, "take"))
      \/ /\ Qualifies(Folded(held))
         /\ Goes(c, Reads(c, "append"))
      \/ Goes(c, To(c, next))
      \/ Retries(c, "load")
  BY DEF LoadRemoval
<1>4. CASE Goes(c, To(c, "take"))
  BY <1>1, <1>2, <1>4, PlainTo, Going
<1>5. CASE /\ Qualifies(Folded(held))
           /\ Goes(c, Reads(c, "append"))
  <2>1. CommandOf(c).type = "RemoveTask"
    BY <1>1 DEF CommandOf, StoreInv, CallDecided, Requests, Prunes, Adds, Changes,
                RemoveTaskCommands
  <2> HIDE DEF held
  <2>2. d = DecideRemove(Folded(held), CommandOf(c))
    BY <2>1 DEF Decide
  <2>3. Records(d)
    BY <1>5, <2>2 DEF DecideRemove, LiveRefusal, Qualifies, Records, Recorded, Sound
  <2> QED BY <1>1, <1>2, <1>5, <2>3, Deciding DEF held
<1>6. CASE Goes(c, To(c, next))
  <2>1. next # "append"
    OBVIOUS
  <2> HIDE DEF next
  <2> QED BY <1>1, <1>2, <1>6, <2>1, PlainTo, Going
<1>7. CASE Retries(c, "load")
  BY <1>1, <1>2, <1>7, Retrying
<1> QED BY <1>3, <1>4, <1>5, <1>6, <1>7

\* At the head loaded, only an add adds, and only to a stream with no page.
LEMMA CommitWhole == ASSUME StoreInv, NEW c \in Clients, Commit(c) PROVE StoreInv'
<1> DEFINE h == call[c].harp
           event == Decided(call[c]).event
           page == [event |-> event, recorded_at |-> Now, command_id |-> CommandId(c)]
<1>1. /\ call[c].pc = "append"
      /\ \/ ~HeadMoved(c) /\ streams' = [streams EXCEPT ![h] = Append(@, page)]
         \/ streams' = streams
      /\ \/ Goes(c, To(c, "purge_load"))
         \/ Ends(c, Answer("task", h))
         \/ Retries(c, "load")
  <2>1. Decide(Folded(call[c].loaded), call[c].loaded # <<>>, CommandOf(c)) = Decided(call[c])
    BY CommandDecided DEF Decided
  <2> QED BY <2>1 DEF Commit
<1>2. ASSUME h \in Harps, ~HeadMoved(c), streams' = [streams EXCEPT ![h] = Append(@, page)]
      PROVE  (StreamsWhole /\ NeverMerged)'
  <2> DEFINE s == streams[h]
             t == Append(s, page)
  <2>1. IsStream(s) /\ \A i \in DOMAIN s : s[i].event.type = "TaskAdded" <=> i = 1
    BY <1>2 DEF StoreInv, StreamsWhole, NeverMerged
  <2>2. IsStream(call[c].loaded) /\ call[c].request \in Requests /\ Records(Decided(call[c]))
    BY <1>1, <1>2 DEF StoreInv, CallDecided
  <2>3. page.event.type = "TaskAdded" <=> call[c].loaded = <<>>
    BY <2>2, DecidedEvent
  <2>4. call[c].loaded = <<>> <=> s = <<>>
    BY <1>2, <2>1, <2>2, StreamLength DEF HeadMoved, Held
  <2> HIDE DEF page
  <2>5. /\ IsStream(t)
        /\ \A i \in DOMAIN t : t[i].event.type = "TaskAdded" <=> i = 1
    BY <2>1, <2>3, <2>4, AppendedPage
  <2>6. \A g \in Harps : streams'[g] = IF g = h THEN t ELSE streams[g]
    BY <1>2 DEF StoreInv, StreamsWhole
  <2>7. streams' = [g \in Harps |-> streams'[g]]
    BY <1>2 DEF StoreInv, StreamsWhole
  <2> HIDE DEF t
  <2>8. \A g \in Harps : IsStream(streams'[g])
    BY <2>5, <2>6 DEF StoreInv, StreamsWhole
  <2>9. NeverMerged'
    BY <2>5, <2>6 DEF StoreInv, NeverMerged
  <2> QED BY <2>7, <2>8, <2>9 DEF StreamsWhole
<1>3. ASSUME h \notin Harps, streams' = [streams EXCEPT ![h] = Append(@, page)]
      PROVE  streams' = streams
  BY <1>3 DEF StoreInv, StreamsWhole
<1>4. (StreamsWhole /\ NeverMerged)'
  BY <1>1, <1>2, <1>3, StreamsStand
<1>5. call[c].pc # "idle"
  BY <1>1
<1> QED BY <1>1, <1>4, <1>5, PlainTo, Going, Ending, Retrying

LEMMA PurgeWhole == ASSUME StoreInv, NEW c \in Clients, PurgeAt(c) PROVE StoreInv'
<1>1. /\ call[c].pc = "purge"
      /\ streams' = [streams EXCEPT ![call[c].harp] = <<>>] \/ streams' = streams
      /\ Goes(c, To(c, "take")) \/ Retries(c, "purge_load")
  BY DEF PurgeAt
<1>2. ASSUME streams' = [streams EXCEPT ![call[c].harp] = <<>>]
      PROVE  (StreamsWhole /\ NeverMerged)'
  BY <1>2, NoStream DEF StoreInv, StreamsWhole, NeverMerged
<1>3. (StreamsWhole /\ NeverMerged)'
  BY <1>1, <1>2, StreamsStand
<1>4. call[c].pc # "idle"
  BY <1>1
<1> QED BY <1>1, <1>3, <1>4, PlainTo, Going, Retrying

LEMMA NextWhole == StoreInv /\ [Next]_vars => StoreInv'
<1> SUFFICES ASSUME StoreInv, [Next]_vars PROVE StoreInv'
  OBVIOUS
<1>1. ASSUME NEW c \in Clients, NEW r \in Sends[c], Begin(c, r) PROVE StoreInv'
  BY <1>1, BeginWhole
<1>2. ASSUME NEW c \in Clients, Step(c) \/ Fail(c) PROVE StoreInv'
  BY <1>2, ReadsWhole, LoadWhole, LoadRemovalWhole, CommitWhole, PurgeWhole DEF Step
<1>3. CASE UNCHANGED vars
  BY <1>3 DEF vars, StoreInv, StreamsWhole, NeverMerged
<1> QED BY <1>1, <1>2, <1>3 DEF Next

\* A stream is one task's, however adds, changes and prunes race, fail and are
\* retried: an add decided on a stream with no page is appended to none, and
\* nothing else begins a stream (add.rs; kernel-runner).
THEOREM NeverEverMerged == Spec => []NeverMerged
<1>1. StoreInv => NeverMerged
  BY DEF StoreInv
<1> QED BY <1>1, InitWhole, NextWhole, PTL DEF Spec

------------------------------------------------------------------------------
(* Where no one prunes, streams only grow.                                  *)

NoPrunes == \A c \in Clients : \A r \in Sends[c] : r.op # "prune"

AddId(key) == RequestId("add", key)

\* Each of a key's places before its n-th holds a task, none of them its own.
Passed(key, n, all) ==
  \A m \in 1..(n - 1) :
    /\ all[ProbeOrder[key][m]] # <<>>
    /\ ~Caused(all[ProbeOrder[key][m]], AddId(key))

\* Call k under command `id`, by the streams `all`: what it loaded is its
\* stream as it stands, or that has grown since; and a keyed add is at its
\* probe's place, past those taken, or at its own add.
CallKnown(k, id, all) ==
  k.pc # "idle" =>
    /\ k.pc \in {"look", "own", "load", "append"}
    /\ k.request.op \in {"add", "set_status"}
    /\ k.harp \in Harps
    /\ k.pc = "look" => k.request.op = "add" /\ k.request.key # NoKey
    /\ k.pc = "append" =>
         /\ ~Caused(k.loaded, id)
         /\ all[k.harp] = k.loaded \/ Len(all[k.harp]) > Len(k.loaded)
    /\ k.request.op = "add" /\ k.request.key # NoKey =>
         /\ k.pc = "own" => Caused(all[k.harp], id)
         /\ k.pc # "own" => /\ k.probe \in 1..Len(ProbeOrder[k.request.key])
                            /\ k.harp = ProbeOrder[k.request.key][k.probe]
         /\ k.pc \in {"load", "append"} => Passed(k.request.key, k.probe, all)

\* A request's add is at one of its key's places, those before it taken by others.
AddsPlaced ==
  \A key \in Keys, h \in Harps : Caused(streams[h], AddId(key)) =>
    \E n \in 1..Len(ProbeOrder[key]) : h = ProbeOrder[key][n] /\ Passed(key, n, streams)

BookInv ==
  /\ StoreInv
  /\ OneEffectPerRequest
  /\ AddsPlaced
  /\ begun = [c \in Clients |-> begun[c]]
  /\ \A c \in Clients : CallKnown(call[c], CommandId(c), streams)

\* Stream t is s, or s grown, an add only from nothing.
Later(s, t) ==
  /\ t = s \/ Len(t) > Len(s)
  /\ s # <<>> => t # <<>>
  /\ \A id : Caused(s, id) => Caused(t, id)
  /\ s # <<>> => \A key \in Keys : Caused(t, AddId(key)) => Caused(s, AddId(key))

LEMMA KeyPlaces ==
  ASSUME NEW key \in Keys
  PROVE  /\ Len(ProbeOrder[key]) \in Nat /\ Len(ProbeOrder[key]) > 0
         /\ \A n \in 1..Len(ProbeOrder[key]) : ProbeOrder[key][n] \in Harps
<1>1. ProbeOrder[key] \in Seq(Harps) /\ ProbeOrder[key] # <<>>
  BY ProbesAssumption
<1>2. Len(ProbeOrder[key]) \in Nat /\ Len(ProbeOrder[key]) # 0
  BY <1>1, EmptySeq
<1> QED BY <1>1, <1>2

LEMMA PassedStays ==
  ASSUME NEW key \in Keys, NEW n \in 1..Len(ProbeOrder[key]), NEW all, NEW next,
         \A h \in Harps : Later(all[h], next[h]), Passed(key, n, all)
  PROVE  Passed(key, n, next)
<1> SUFFICES ASSUME NEW m \in 1..(n - 1)
             PROVE  /\ next[ProbeOrder[key][m]] # <<>>
                    /\ ~Caused(next[ProbeOrder[key][m]], AddId(key))
  BY DEF Passed
<1>1. m \in 1..Len(ProbeOrder[key])
  BY KeyPlaces
<1>2. ProbeOrder[key][m] \in Harps
  BY <1>1, KeyPlaces
<1>3. all[ProbeOrder[key][m]] # <<>> /\ ~Caused(all[ProbeOrder[key][m]], AddId(key))
  BY DEF Passed
<1> QED BY <1>2, <1>3 DEF Later

LEMMA KnownStays ==
  ASSUME NEW k, CallDecided(k), NEW id, NEW all, NEW next, CallKnown(k, id, all),
         \A h \in Harps : Later(all[h], next[h]) /\ IsStream(all[h]) /\ IsStream(next[h])
  PROVE  CallKnown(k, id, next)
<1> SUFFICES ASSUME k.pc # "idle" PROVE CallKnown(k, id, next)
  BY DEF CallKnown
<1>1. k.harp \in Harps
  BY DEF CallKnown
<1>2. Later(all[k.harp], next[k.harp]) /\ IsStream(all[k.harp]) /\ IsStream(next[k.harp])
  BY <1>1
<1>3. k.pc = "append" => next[k.harp] = k.loaded \/ Len(next[k.harp]) > Len(k.loaded)
  <2> SUFFICES ASSUME k.pc = "append"
               PROVE  next[k.harp] = k.loaded \/ Len(next[k.harp]) > Len(k.loaded)
    OBVIOUS
  <2>1. IsStream(k.loaded)
    BY <1>1 DEF CallDecided
  <2>2. Len(k.loaded) \in Nat /\ Len(all[k.harp]) \in Nat /\ Len(next[k.harp]) \in Nat
    BY <1>2, <2>1, StreamLength
  <2>3. all[k.harp] = k.loaded \/ Len(all[k.harp]) > Len(k.loaded)
    BY DEF CallKnown
  <2> QED BY <1>2, <2>2, <2>3 DEF Later
<1>4. ASSUME k.request.op = "add", k.request.key # NoKey
      PROVE  /\ k.pc = "own" => Caused(next[k.harp], id)
             /\ k.pc \in {"load", "append"} => Passed(k.request.key, k.probe, next)
  <2>1. k.pc = "own" => Caused(next[k.harp], id)
    BY <1>2, <1>4 DEF CallKnown, Later
  <2>2. k.request.key \in Keys
    BY <1>4 DEF CallDecided, Requests, Adds, Prunes, Changes
  <2>3. k.pc \in {"load", "append"} => Passed(k.request.key, k.probe, next)
    BY <1>4, <2>2, PassedStays DEF CallKnown
  <2> QED BY <2>1, <2>3
<1> QED BY <1>3, <1>4 DEF CallKnown

\* What streams later than these keep of the adds on them.
StreamsLater == \A h \in Harps : Later(streams[h], streams'[h])

LEMMA StreamsSame ==
  ASSUME BookInv, streams' = streams
  PROVE  StreamsLater /\ OneEffectPerRequest' /\ AddsPlaced'
BY DEF BookInv, StreamsLater, Later, OneEffectPerRequest, AddsPlaced

\* One call moves on streams that are later.
LEMMA KnownMoves ==
  ASSUME BookInv, StoreInv', NEW c \in Clients, NEW k, call' = [call EXCEPT ![c] = k],
         StreamsLater, OneEffectPerRequest', AddsPlaced',
         begun' = [d \in Clients |-> begun'[d]],
         \A d \in Clients : d # c => begun'[d] = begun[d],
         CallKnown(k, CommandId(c)', streams')
  PROVE  BookInv'
<1>1. \A d \in Clients : call'[d] = IF d = c THEN k ELSE call[d]
  BY DEF BookInv, StoreInv
<1>2. ASSUME NEW d \in Clients, d # c
      PROVE  CallKnown(call'[d], CommandId(d)', streams')
  <2>1. call'[d] = call[d] /\ begun'[d] = begun[d]
    BY <1>1, <1>2
  <2>2. CommandId(d)' = CommandId(d)
    BY <2>1 DEF CommandId
  <2>3. \A h \in Harps :
          Later(streams[h], streams'[h]) /\ IsStream(streams[h]) /\ IsStream(streams'[h])
    BY DEF StreamsLater, BookInv, StoreInv, StreamsWhole
  <2>4. CallDecided(call[d]) /\ CallKnown(call[d], CommandId(d), streams)
    BY DEF BookInv, StoreInv
  <2> QED BY <2>1, <2>2, <2>3, <2>4, KnownStays
<1>3. \A d \in Clients : CallKnown(call'[d], CommandId(d)', streams')
  BY <1>1, <1>2
<1> QED BY <1>3 DEF BookInv

LEMMA KnownGoes ==
  ASSUME BookInv, StoreInv', NEW c \in Clients, NEW k, Goes(c, k), begun' = begun,
         k.request = call[c].request,
         StreamsLater, OneEffectPerRequest', AddsPlaced',
         CallKnown(k, CommandId(c), streams')
  PROVE  BookInv'
<1>1. call' = [call EXCEPT ![c] = k]
  BY DEF Goes
<1>2. call'[c] = k
  BY <1>1 DEF BookInv, StoreInv
<1>3. CommandId(c)' = CommandId(c)
  BY <1>2 DEF CommandId
<1> QED BY <1>1, <1>3, KnownMoves DEF BookInv

LEMMA KnownEnds ==
  ASSUME BookInv, StoreInv', NEW c \in Clients, NEW said, Ends(c, said), begun' = begun,
         StreamsLater, OneEffectPerRequest', AddsPlaced'
  PROVE  BookInv'
<1>1. CallKnown(Idle, CommandId(c)', streams')
  BY DEF CallKnown, Idle
<1> QED BY <1>1, KnownMoves DEF Ends, BookInv

\* Tried again from its load.
LEMMA KnownRetries ==
  ASSUME BookInv, StoreInv', NEW c \in Clients, call[c].pc \in {"load", "append"},
         Retries(c, "load"), begun' = begun,
         StreamsLater, OneEffectPerRequest', AddsPlaced'
  PROVE  BookInv'
<1> DEFINE k == [call[c] EXCEPT !.pc = "load", !.tries = @ + 1, !.loaded = <<>>, !.seen = 0]
<1>1. CASE Goes(c, k)
  <2>1. IsCall(call[c])
    BY DEF BookInv, StoreInv, CallDecided
  <2>2. /\ k.pc = "load" /\ k.request = call[c].request /\ k.harp = call[c].harp
        /\ k.probe = call[c].probe
    BY <2>1 DEF IsCall
  <2> HIDE DEF k
  <2>3. call[c].request \in Requests /\ CallKnown(call[c], CommandId(c), streams)
    BY DEF BookInv, StoreInv, CallDecided
  <2>4. ASSUME k.request.op = "add", k.request.key # NoKey
        PROVE  /\ k.probe \in 1..Len(ProbeOrder[k.request.key])
               /\ k.harp = ProbeOrder[k.request.key][k.probe]
               /\ Passed(k.request.key, k.probe, streams')
    <3>1. k.request.key \in Keys
      BY <2>2, <2>3, <2>4 DEF Requests, Adds, Prunes, Changes
    <3>2. /\ k.probe \in 1..Len(ProbeOrder[k.request.key])
          /\ k.harp = ProbeOrder[k.request.key][k.probe]
          /\ Passed(k.request.key, k.probe, streams)
      BY <2>2, <2>3, <2>4 DEF CallKnown
    <3> QED BY <3>1, <3>2, PassedStays DEF StreamsLater
  <2>5. CallKnown(k, CommandId(c), streams')
    BY <2>2, <2>3, <2>4 DEF CallKnown
  <2> QED BY <1>1, <2>2, <2>5, KnownGoes
<1>2. CASE Ends(c, Said("gave_up"))
  BY <1>2, KnownEnds
<1> QED BY <1>1, <1>2 DEF Retries

\* An add goes on to a position, past those before.
LEMMA KnownAdding ==
  ASSUME BookInv, StoreInv', NEW c \in Clients, call[c].pc # "idle",
         NEW n \in 1..Positions(call[c].request), Adding(c, n), begun' = begun,
         streams' = streams, call[c].request.op = "add",
         call[c].request.key # NoKey => Passed(call[c].request.key, n, streams)
  PROVE  BookInv'
<1> DEFINE r == call[c].request
<1>1. PICK h \in Places(r, n) : Goes(c, [To(c, "load") EXCEPT !.harp = h, !.probe = n])
  BY DEF Adding
<1> DEFINE k == [To(c, "load") EXCEPT !.harp = h, !.probe = n]
<1>2. IsCall(call[c]) /\ r \in Requests
  BY DEF BookInv, StoreInv, CallDecided
<1>3. k.pc = "load" /\ k.request = r /\ k.harp = h /\ k.probe = n
  BY <1>2 DEF IsCall, To
<1> HIDE DEF k
<1>4. r.key # NoKey => /\ r.key \in Keys /\ n \in 1..Len(ProbeOrder[r.key])
                       /\ h = ProbeOrder[r.key][n]
  BY <1>1, <1>2 DEF Places, Positions, Requests, Adds, Prunes, Changes
<1>5. h \in Harps
  BY <1>1, <1>4, KeyPlaces DEF Places
<1>6. CallKnown(k, CommandId(c), streams')
  BY <1>3, <1>4, <1>5 DEF CallKnown
<1> QED BY <1>1, <1>3, <1>6, StreamsSame, KnownGoes DEF k

------------------------------------------------------------------------------
(* The steps, where no one prunes.                                          *)

LEMMA InitKnown == Init => BookInv
<1> SUFFICES ASSUME Init PROVE BookInv
  OBVIOUS
<1>1. StoreInv
  BY InitWhole
<1>2. ASSUME NEW h \in Harps
      PROVE  /\ \A i, j \in DOMAIN streams[h] : i = j
             /\ \A key \in Keys : ~Caused(streams[h], AddId(key))
  <2>1. streams[h] \in {<<>>} \cup OldStreams(h)
    BY DEF Init
  <2>2. CASE streams[h] = <<>>
    BY <2>2, NoStream DEF Caused
  <2>3. CASE streams[h] \in OldStreams(h)
    <3>1. PICK a \in OldTasks :
            streams[h] = <<[event |-> TaskAddedOf([a EXCEPT !.harp_id = h]),
                            recorded_at |-> Old, command_id |-> OldId]>>
      BY <2>3 DEF OldStreams
    <3> DEFINE page == [event |-> TaskAddedOf([a EXCEPT !.harp_id = h]),
                        recorded_at |-> Old, command_id |-> OldId]
    <3>2. page.command_id = OldId
      OBVIOUS
    <3> HIDE DEF page
    <3>3. streams[h] = <<page>>
      BY <3>1 DEF page
    <3>4. OldId.op = "fresh" /\ \A key : AddId(key).op = "add"
      BY DEF OldId, FreshId, AddId, RequestId
    <3> QED BY <3>2, <3>3, <3>4, OnePage DEF Caused
  <2> QED BY <2>1, <2>2, <2>3
<1>3. OneEffectPerRequest /\ AddsPlaced
  BY <1>2 DEF OneEffectPerRequest, AddsPlaced
<1>4. begun = [c \in Clients |-> begun[c]]
  BY DEF Init
<1>5. \A c \in Clients : CallKnown(call[c], CommandId(c), streams)
  BY DEF Init, CallKnown, Idle
<1> QED BY <1>1, <1>3, <1>4, <1>5 DEF BookInv

LEMMA BeginKnown ==
  ASSUME NoPrunes, BookInv, NEW c \in Clients, NEW r \in Sends[c], Begin(c, r)
  PROVE  BookInv'
<1>1. r \in Requests /\ r.op # "prune"
  BY RequestsAssumption DEF NoPrunes
<1>2. StoreInv'
  BY BeginWhole DEF BookInv
<1> DEFINE begin == [Idle EXCEPT !.request = r, !.harp = r.harp]
<1>3. PICK k : Goes(c, k) /\ CallKnown(k, CommandId(c)', streams')
  <2>1. CASE r.op = "set_status"
    <3> DEFINE k == [begin EXCEPT !.pc = "load"]
    <3>1. Goes(c, k)
      BY <2>1 DEF Begin
    <3>2. k.pc = "load" /\ k.request = r /\ k.harp = r.harp
      BY DEF Idle
    <3> HIDE DEF k
    <3>3. r.harp \in Harps
      BY <1>1, <2>1 DEF Requests, Adds, Prunes, Changes
    <3>4. CallKnown(k, CommandId(c)', streams')
      BY <2>1, <3>2, <3>3 DEF CallKnown
    <3> QED BY <3>1, <3>4
  <2>2. CASE r.op = "add"
    <3> DEFINE pc == IF r.key = NoKey THEN "load" ELSE "look"
    <3>1. PICK h \in Places(r, 1) : Goes(c, [begin EXCEPT !.pc = pc, !.harp = h, !.probe = 1])
      BY <2>2 DEF Begin
    <3> DEFINE k == [begin EXCEPT !.pc = pc, !.harp = h, !.probe = 1]
    <3>2. k.pc = pc /\ k.request = r /\ k.harp = h /\ k.probe = 1
      BY DEF Idle
    <3> HIDE DEF k
    <3>3. r.key # NoKey => r.key \in Keys
      BY <1>1, <2>2 DEF Requests, Adds, Prunes, Changes
    <3>4. r.key # NoKey => 1 \in 1..Len(ProbeOrder[r.key]) /\ h = ProbeOrder[r.key][1]
      BY <3>1, <3>3, KeyPlaces DEF Places
    <3>5. h \in Harps
      BY <3>1, <3>3, <3>4, KeyPlaces DEF Places
    <3>6. CallKnown(k, CommandId(c)', streams')
      BY <2>2, <3>2, <3>4, <3>5 DEF CallKnown
    <3> QED BY <3>1, <3>6 DEF k
  <2> QED BY <1>1, <2>1, <2>2 DEF Requests, Adds, Prunes, Changes
<1>4. /\ begun' = [d \in Clients |-> begun'[d]]
      /\ \A d \in Clients : d # c => begun'[d] = begun[d]
  BY DEF Begin, BookInv
<1>5. streams' = streams
  BY DEF Begin
<1> QED BY <1>2, <1>3, <1>4, <1>5, StreamsSame, KnownMoves DEF Goes

LEMMA LookKnown ==
  ASSUME BookInv, NEW c \in Clients, Look(c) PROVE BookInv'
<1> DEFINE r == call[c].request
           next == call[c].probe + 1
<1>1. StoreInv'
  BY ReadsWhole DEF BookInv
<1>2. streams' = streams /\ begun' = begun /\ call[c].pc = "look"
  BY DEF Look
<1>3. /\ IsCall(call[c]) /\ r \in Requests /\ CallKnown(call[c], CommandId(c), streams)
  BY <1>2 DEF BookInv, StoreInv, CallDecided
<1>4. /\ r.op = "add" /\ r.key # NoKey /\ r.key \in Keys /\ call[c].harp \in Harps
      /\ call[c].probe \in 1..Len(ProbeOrder[r.key])
      /\ call[c].harp = ProbeOrder[r.key][call[c].probe]
  BY <1>2, <1>3 DEF CallKnown, Requests, Adds, Prunes, Changes
<1>5. Positions(r) = Len(ProbeOrder[r.key])
  BY <1>4 DEF Positions
<1>6. CASE Caused(Held(c), CommandId(c)) /\ Goes(c, FoundOwn(c))
  <2> DEFINE k == FoundOwn(c)
  <2>1. k.pc = "own" /\ k.request = r /\ k.harp = call[c].harp
    BY FoundFields DEF BookInv
  <2> HIDE DEF k
  <2>2. CallKnown(k, CommandId(c), streams')
    BY <1>2, <1>4, <1>6, <2>1 DEF CallKnown, Held
  <2> QED BY <1>1, <1>2, <1>6, <2>1, <2>2, StreamsSame, KnownGoes DEF k
<1>7. CASE /\ next <= Positions(r)
           /\ Goes(c, [call[c] EXCEPT !.harp = ProbeOrder[r.key][next], !.probe = next])
  <2> DEFINE k == [call[c] EXCEPT !.harp = ProbeOrder[r.key][next], !.probe = next]
  <2>1. /\ k.pc = "look" /\ k.request = r /\ k.harp = ProbeOrder[r.key][next]
        /\ k.probe = next
    BY <1>2, <1>3 DEF IsCall
  <2> HIDE DEF k
  <2>2. next \in 1..Len(ProbeOrder[r.key]) /\ ProbeOrder[r.key][next] \in Harps
    BY <1>4, <1>5, <1>7, KeyPlaces
  <2>3. CallKnown(k, CommandId(c), streams')
    BY <1>4, <2>1, <2>2 DEF CallKnown
  <2> QED BY <1>1, <1>2, <1>7, <2>1, <2>3, StreamsSame, KnownGoes DEF k
<1>8. CASE Adding(c, 1)
  <2>1. Passed(r.key, 1, streams)
    BY DEF Passed
  <2>2. 1 \in 1..Positions(r)
    BY <1>4, <1>5, KeyPlaces
  <2> QED BY <1>1, <1>2, <1>4, <1>8, <2>1, <2>2, KnownAdding
<1> QED BY <1>6, <1>7, <1>8 DEF Look

\* What a load may decide, by what was asked.
LEMMA DecidedFor ==
  ASSUME NEW k, k.request \in Requests, NEW held, NEW taken \in BOOLEAN
  PROVE  LET d == Decide(held, taken, CommandIn(k)) IN
         /\ k.request.op = "add" => d # Unchanged /\ (d.refusal = "TaskExists" => taken)
         /\ k.request.op = "set_status" => d.refusal # "TaskExists"
<1> DEFINE d == Decide(held, taken, CommandIn(k))
<1>1. CASE k.request.op = "add"
  <2>1. CommandIn(k).type = "AddTask"
    BY <1>1 DEF CommandIn, Requests, Adds, Prunes, Changes, AddTaskCommands
  <2>2. d = DecideAdd(taken, CommandIn(k))
    BY <2>1 DEF Decide
  <2>3. d.refusal = "TaskExists" => taken
    BY <2>2 DEF DecideAdd, Refused, Recorded, AddRefusal, TextRefusal, StatusRefusal, Sound
  <2>4. d # Unchanged
    <3>1. CASE taken
      BY <2>2, <3>1 DEF DecideAdd, Refused, Unchanged, Sound
    <3>2. CASE ~taken /\ AddRefusal(CommandIn(k)) # Sound
      BY <2>2, <3>2 DEF DecideAdd, Refused, Unchanged
    <3>3. CASE ~taken /\ AddRefusal(CommandIn(k)) = Sound
      BY <2>2, <3>3 DEF DecideAdd, Recorded, Unchanged, NoEvent, TaskAddedOf
    <3> QED BY <3>1, <3>2, <3>3
  <2> QED BY <1>1, <2>3, <2>4
<1>2. CASE k.request.op = "set_status"
  <2>1. CommandIn(k).type = "SetStatus"
    BY <1>2 DEF CommandIn, Requests, Adds, Prunes, Changes, SetStatusCommands
  <2> DEFINE c == CommandIn(k)
  <2> HIDE DEF c
  <2>2. d = DecideSetStatus(held, c)
    BY <2>1 DEF Decide, c
  <2>3. Moved(held, c).refusal # "TaskExists"
    BY DEF Moved, Recorded, Refused, Unchanged, Sound
  <2>4. LiveRefusal(held) # "TaskExists" /\ ChangeRefusal(c) # "TaskExists"
    BY DEF LiveRefusal, ChangeRefusal, StatusRefusal, Sound
  <2> QED BY <1>2, <2>2, <2>3, <2>4 DEF DecideSetStatus, Refused
<1> QED BY <1>1, <1>2

LEMMA LoadKnown ==
  ASSUME BookInv, NEW c \in Clients, Load(c) PROVE BookInv'
<1> DEFINE r == call[c].request
           held == Held(c)
           d == Decide(Folded(held), held # <<>>, CommandOf(c))
           n == call[c].probe + 1
<1>1. StoreInv'
  BY LoadWhole DEF BookInv
<1>2. streams' = streams /\ begun' = begun /\ call[c].pc = "load"
  BY DEF Load
<1>3. IsCall(call[c]) /\ r \in Requests /\ CallKnown(call[c], CommandId(c), streams)
  BY <1>2 DEF BookInv, StoreInv, CallDecided
<1>4. call[c].harp \in Harps /\ r.op \in {"add", "set_status"}
  BY <1>2, <1>3 DEF CallKnown
<1>5. \/ Caused(held, CommandId(c)) /\ Goes(c, FoundOwn(c))
      \/ /\ ~Caused(held, CommandId(c))
         /\ Goes(c, Reads(c, "append"))
      \/ \E said : Ends(c, said)
      \/ /\ ~Caused(held, CommandId(c)) /\ d.refusal = "TaskExists"
         /\ call[c].probe < Positions(r) /\ Adding(c, n)
      \/ Retries(c, "load")
  BY DEF Load
<1>6. CASE Caused(held, CommandId(c)) /\ Goes(c, FoundOwn(c))
  <2> DEFINE k == FoundOwn(c)
  <2>1. k.pc = "own" /\ k.request = r /\ k.harp = call[c].harp
    BY FoundFields DEF BookInv
  <2> HIDE DEF k
  <2>2. CallKnown(k, CommandId(c), streams')
    BY <1>2, <1>4, <1>6, <2>1 DEF CallKnown, Held
  <2> QED BY <1>1, <1>2, <1>6, <2>1, <2>2, StreamsSame, KnownGoes DEF k
<1>7. CASE /\ ~Caused(held, CommandId(c))
           /\ Goes(c, Reads(c, "append"))
  <2> DEFINE k == Reads(c, "append")
  <2>1. /\ k.pc = "append" /\ k.request = r /\ k.harp = call[c].harp
        /\ k.probe = call[c].probe /\ k.loaded = held
    BY ReadsFields DEF BookInv
  <2> HIDE DEF k
  <2>2. CallKnown(k, CommandId(c), streams')
    BY <1>2, <1>3, <1>4, <1>7, <2>1 DEF CallKnown, Held
  <2> QED BY <1>1, <1>2, <1>7, <2>1, <2>2, StreamsSame, KnownGoes DEF k
<1>8. CASE \E said : Ends(c, said)
  BY <1>1, <1>2, <1>8, StreamsSame, KnownEnds
<1>9. CASE /\ ~Caused(held, CommandId(c)) /\ d.refusal = "TaskExists"
           /\ call[c].probe < Positions(r) /\ Adding(c, n)
  <2>1. d = Decide(Folded(held), held # <<>>, CommandIn(call[c]))
    BY CommandDecided
  <2>2. r.op = "add" /\ held # <<>>
    <3>1. (held # <<>>) \in BOOLEAN
      OBVIOUS
    <3> HIDE DEF d, held
    <3> QED BY <1>3, <1>4, <1>9, <2>1, <3>1, DecidedFor DEF d
  <2>3. ASSUME r.key # NoKey
        PROVE  n \in 1..Positions(r) /\ Passed(r.key, n, streams)
    <3>1. r.key \in Keys
      BY <1>3, <2>2, <2>3 DEF Requests, Adds, Prunes, Changes
    <3>2. /\ call[c].probe \in 1..Len(ProbeOrder[r.key])
          /\ call[c].harp = ProbeOrder[r.key][call[c].probe]
          /\ Passed(r.key, call[c].probe, streams)
      BY <1>2, <1>3, <2>2, <2>3 DEF CallKnown
    <3>3. CommandId(c) = AddId(r.key)
      BY <2>2, <2>3 DEF CommandId, AddId
    <3>4. n \in 1..Positions(r)
      BY <1>9, <2>3, <3>1, <3>2, KeyPlaces DEF Positions
    <3>5. Passed(r.key, n, streams)
      <4>1. \A m \in 1..(n - 1) : m \in 1..(call[c].probe - 1) \/ m = call[c].probe
        BY <3>2
      <4> QED BY <1>9, <2>2, <3>2, <3>3, <4>1 DEF Passed, Held
    <3> QED BY <3>4, <3>5
  <2>4. CASE r.key # NoKey
    BY <1>1, <1>2, <1>9, <2>2, <2>3, <2>4, KnownAdding
  <2>5. CASE r.key = NoKey
    <3> DEFINE k(h) == [To(c, "load") EXCEPT !.harp = h, !.probe = n]
    <3>1. PICK h \in Harps : Goes(c, k(h))
      BY <1>9, <2>5 DEF Adding, Places
    <3>2. k(h).pc = "load" /\ k(h).request = r /\ k(h).harp = h
      BY <1>3 DEF IsCall, To
    <3> HIDE DEF k
    <3>3. CallKnown(k(h), CommandId(c), streams')
      BY <2>2, <2>5, <3>2 DEF CallKnown
    <3> QED BY <1>1, <1>2, <3>1, <3>2, <3>3, StreamsSame, KnownGoes
  <2> QED BY <2>4, <2>5
<1>10. CASE Retries(c, "load")
  BY <1>1, <1>2, <1>10, StreamsSame, KnownRetries
<1> QED BY <1>5, <1>6, <1>7, <1>8, <1>9, <1>10

\* A commit that appends does so to what was loaded, where its id is not.
LEMMA Committed ==
  ASSUME BookInv, NEW c \in Clients, Commit(c)
  PROVE  LET h == call[c].harp IN
         /\ call[c].pc = "append" /\ h \in Harps
         /\ \/ streams' = streams /\ Retries(c, "load")
            \/ /\ Ends(c, Answer("task", h)) \/ Retries(c, "load")
               /\ ~Caused(streams[h], CommandId(c))
               /\ call[c].request.op = "add" <=> streams[h] = <<>>
               /\ \E page : /\ page.command_id = CommandId(c)
                            /\ \A g \in Harps : streams'[g] =
                                 IF g = h THEN Append(streams[h], page) ELSE streams[g]
<1> DEFINE h == call[c].harp
           loaded == call[c].loaded
<1>1. call[c].pc = "append"
  BY DEF Commit
<1>2. /\ call[c].request \in Requests /\ Records(Decided(call[c]))
      /\ CallKnown(call[c], CommandId(c), streams) /\ call[c].request.op # "prune"
  BY <1>1 DEF BookInv, StoreInv, CallDecided, CallKnown
<1>3. h \in Harps
  BY <1>1, <1>2 DEF CallKnown
<1>4. ASSUME ~HeadMoved(c)
      PROVE  /\ streams[h] = loaded /\ ~Caused(streams[h], CommandId(c))
             /\ call[c].request.op = "add" <=> streams[h] = <<>>
  <2>1. IsStream(streams[h]) /\ IsStream(loaded)
    BY <1>1, <1>3 DEF BookInv, StoreInv, StreamsWhole, CallDecided
  <2>2. Len(streams[h]) = Len(loaded) /\ Len(loaded) \in Nat
    BY <1>4, <2>1, StreamLength DEF HeadMoved, Held
  <2>3. streams[h] = loaded
    BY <1>1, <1>2, <2>2 DEF CallKnown
  <2> QED BY <1>1, <1>2, <2>3, DecidedEvent DEF CallKnown
<1>5. \/ streams' = streams /\ Retries(c, "load")
      \/ /\ ~HeadMoved(c)
         /\ Ends(c, Answer("task", h)) \/ Retries(c, "load")
         /\ \E page : /\ page.command_id = CommandId(c)
                      /\ streams' = [streams EXCEPT ![h] = Append(@, page)]
  BY <1>2 DEF Commit
<1>6. ASSUME NEW page, streams' = [streams EXCEPT ![h] = Append(@, page)]
      PROVE  \A g \in Harps : streams'[g] = IF g = h THEN Append(streams[h], page)
                                            ELSE streams[g]
  BY <1>3, <1>6 DEF BookInv, StoreInv, StreamsWhole
<1> QED BY <1>1, <1>3, <1>4, <1>5, <1>6

\* A command's id is a keyed add's only from that add.
LEMMA AddIdOf ==
  ASSUME NEW c \in Clients, NEW key \in Keys, CommandId(c) = AddId(key)
  PROVE  call[c].request.op = "add" /\ call[c].request.key = key /\ key # NoKey
<1>1. key # NoKey
  BY RequestsAssumption
<1>2. AddId(key).op = "add" /\ AddId(key).key = key
  BY DEF AddId, RequestId
<1>3. call[c].request.key # NoKey
  BY <1>2 DEF CommandId, FreshId
<1> QED BY <1>1, <1>2, <1>3 DEF CommandId, RequestId

\* One page more, of a command not on its stream, an add's on an empty one.
LEMMA Appended ==
  ASSUME BookInv, StoreInv', NEW c \in Clients, call[c].pc = "append",
         NEW h \in Harps, h = call[c].harp, NEW page, page.command_id = CommandId(c),
         \A g \in Harps : streams'[g] = IF g = h THEN Append(streams[h], page) ELSE streams[g],
         ~Caused(streams[h], CommandId(c)),
         call[c].request.op = "add" <=> streams[h] = <<>>
  PROVE  /\ StreamsLater /\ OneEffectPerRequest' /\ AddsPlaced'
         /\ \A id : Caused(streams'[h], id) <=> Caused(streams[h], id) \/ id = CommandId(c)
<1> DEFINE s == streams[h]
           t == Append(s, page)
<1>1. IsStream(s) /\ (\A i, j \in DOMAIN s : s[i].command_id = s[j].command_id => i = j)
  BY DEF BookInv, StoreInv, StreamsWhole, OneEffectPerRequest
<1>2. /\ t # <<>> /\ Len(s) \in Nat /\ Len(t) = Len(s) + 1
      /\ DOMAIN s = 1..Len(s) /\ DOMAIN t = 1..(Len(s) + 1)
      /\ \A i \in 1..Len(s) : t[i] = s[i]
      /\ t[Len(s) + 1] = page
  BY <1>1, AppendedPage
<1> HIDE DEF t
<1>3. \A i \in DOMAIN t : i \in DOMAIN s \/ i = Len(s) + 1
  BY <1>2
<1>4. \A id : Caused(t, id) <=> Caused(s, id) \/ id = CommandId(c)
  <2> SUFFICES ASSUME NEW id PROVE Caused(t, id) <=> Caused(s, id) \/ id = CommandId(c)
    OBVIOUS
  <2>1. ASSUME Caused(t, id) PROVE Caused(s, id) \/ id = CommandId(c)
    BY <1>2, <1>3, <2>1 DEF Caused
  <2>2. ASSUME Caused(s, id) PROVE Caused(t, id)
    <3>1. PICK i \in DOMAIN s : s[i].command_id = id
      BY <2>2 DEF Caused
    <3>2. i \in DOMAIN t /\ t[i].command_id = id
      BY <1>2, <3>1
    <3> QED BY <3>2 DEF Caused
  <2>3. Caused(t, CommandId(c))
    <3>1. Len(s) + 1 \in DOMAIN t /\ t[Len(s) + 1].command_id = CommandId(c)
      BY <1>2
    <3> QED BY <3>1 DEF Caused
  <2> QED BY <2>1, <2>2, <2>3
<1>5. OneEffectPerRequest'
  <2>1. \A i \in DOMAIN s : t[i] = s[i] /\ s[i].command_id # page.command_id
    BY <1>2 DEF Caused
  <2>2. ASSUME NEW i \in DOMAIN t, NEW j \in DOMAIN t, t[i].command_id = t[j].command_id
        PROVE  i = j
    <3>1. CASE i \in DOMAIN s /\ j \in DOMAIN s
      BY <1>1, <2>1, <2>2, <3>1
    <3>2. CASE i = Len(s) + 1 \/ j = Len(s) + 1
      BY <1>2, <1>3, <2>1, <2>2, <3>2
    <3> QED BY <1>3, <3>1, <3>2
  <2>3. \A g \in Harps : streams'[g] = IF g = h THEN t ELSE streams[g]
    BY DEF t
  <2> HIDE DEF s
  <2> QED BY <2>2, <2>3 DEF BookInv, OneEffectPerRequest
<1>6. Later(s, t)
  <2>1. ASSUME s # <<>>, NEW key \in Keys, Caused(t, AddId(key))
        PROVE  Caused(s, AddId(key))
    BY <1>4, <2>1, AddIdOf
  <2> QED BY <1>2, <1>4, <2>1 DEF Later
<1>7. \A g \in Harps : Later(streams[g], streams[g])
  BY DEF Later
<1>8. StreamsLater
  BY <1>6, <1>7 DEF StreamsLater, t
<1>9. ASSUME NEW key \in Keys, NEW g \in Harps, Caused(streams'[g], AddId(key))
      PROVE  \E n \in 1..Len(ProbeOrder[key]) : g = ProbeOrder[key][n] /\ Passed(key, n, streams')
  <2>1. CASE Caused(streams[g], AddId(key))
    <3>1. PICK n \in 1..Len(ProbeOrder[key]) :
            g = ProbeOrder[key][n] /\ Passed(key, n, streams)
      BY <2>1 DEF BookInv, AddsPlaced
    <3> QED BY <1>8, <3>1, PassedStays DEF StreamsLater
  <2>2. CASE ~Caused(streams[g], AddId(key))
    <3>1. g = h /\ CommandId(c) = AddId(key)
      BY <1>4, <1>9, <2>2 DEF t
    <3>2. call[c].request.op = "add" /\ call[c].request.key = key /\ key # NoKey
      BY <3>1, AddIdOf
    <3>3. /\ call[c].probe \in 1..Len(ProbeOrder[key])
          /\ h = ProbeOrder[key][call[c].probe]
          /\ Passed(key, call[c].probe, streams)
      BY <3>2 DEF BookInv, CallKnown
    <3> QED BY <1>8, <3>1, <3>3, PassedStays DEF StreamsLater
  <2> QED BY <2>1, <2>2
<1>10. AddsPlaced'
  BY <1>9 DEF AddsPlaced
<1>11. streams'[h] = t
  BY DEF t
<1> QED BY <1>4, <1>5, <1>8, <1>10, <1>11

LEMMA CommitKnown ==
  ASSUME BookInv, NEW c \in Clients, Commit(c) PROVE BookInv'
<1> DEFINE h == call[c].harp
<1>1. StoreInv'
  BY CommitWhole DEF BookInv
<1>2. begun' = begun
  BY DEF Commit
<1>3. call[c].pc = "append" /\ h \in Harps
  BY Committed
<1>4. CASE streams' = streams /\ Retries(c, "load")
  BY <1>1, <1>2, <1>3, <1>4, StreamsSame, KnownRetries
<1>5. ASSUME NEW page, page.command_id = CommandId(c),
             \A g \in Harps : streams'[g] = IF g = h THEN Append(streams[h], page)
                                            ELSE streams[g],
             ~Caused(streams[h], CommandId(c)),
             call[c].request.op = "add" <=> streams[h] = <<>>,
             Ends(c, Answer("task", h)) \/ Retries(c, "load")
      PROVE  BookInv'
  <2> HIDE DEF h
  <2>1. StreamsLater /\ OneEffectPerRequest' /\ AddsPlaced'
    BY <1>1, <1>3, <1>5, Appended DEF h
  <2> QED BY <1>1, <1>2, <1>3, <1>5, <2>1, KnownEnds, KnownRetries
<1> QED BY <1>4, <1>5, Committed

LEMMA NextKnown == ASSUME NoPrunes PROVE BookInv /\ [Next]_vars => BookInv'
<1> SUFFICES ASSUME BookInv, [Next]_vars PROVE BookInv'
  OBVIOUS
<1>1. ASSUME NEW c \in Clients, NEW r \in Sends[c], Begin(c, r) PROVE BookInv'
  BY <1>1, BeginKnown
<1>2. ASSUME NEW c \in Clients, Step(c) \/ Fail(c) PROVE BookInv'
  <2>1. CASE Look(c) \/ Load(c) \/ Commit(c)
    BY <2>1, LookKnown, LoadKnown, CommitKnown
  <2>2. CASE ReadOwn(c) \/ Fail(c)
    <3>1. StoreInv'
      BY <2>2, ReadsWhole DEF BookInv
    <3>2. streams' = streams /\ begun' = begun /\ \E said : Ends(c, said)
      BY <2>2 DEF ReadOwn, Fail
    <3> QED BY <3>1, <3>2, StreamsSame, KnownEnds
  <2>3. CASE LoadRemoval(c) \/ List(c) \/ Take(c) \/ LoadPurge(c) \/ PurgeAt(c)
    BY <2>3 DEF BookInv, CallKnown, LoadRemoval, List, Take, LoadPurge, PurgeAt
  <2> QED BY <1>2, <2>1, <2>2, <2>3 DEF Step
<1>3. CASE UNCHANGED vars
  <2>1. StoreInv'
    BY <1>3, NextWhole DEF BookInv
  <2>2. streams' = streams /\ call' = call /\ begun' = begun
    BY <1>3 DEF vars
  <2>3. \A c \in Clients : CommandId(c)' = CommandId(c)
    BY <2>2 DEF CommandId
  <2> QED BY <2>1, <2>2, <2>3, StreamsSame DEF BookInv
<1> QED BY <1>1, <1>2, <1>3 DEF Next

------------------------------------------------------------------------------
(* What a request comes to.                                                 *)

\* A request's command is on a stream once, however often it is sent and
\* retried (kernel-runner; request.rs), where no one prunes.
THEOREM OneEffectEver == ASSUME NoPrunes PROVE Spec => []OneEffectPerRequest
<1>1. BookInv => OneEffectPerRequest
  BY DEF BookInv
<1> QED BY <1>1, InitKnown, NextKnown, PTL DEF Spec

LEMMA OneTask == ASSUME BookInv PROVE OneTaskPerRequest
<1> SUFFICES ASSUME NEW key \in Keys, NEW g \in AddedAt(key), NEW h \in AddedAt(key)
             PROVE  g = h
  BY DEF OneTaskPerRequest
<1>1. /\ g \in Harps /\ Caused(streams[g], AddId(key))
      /\ h \in Harps /\ Caused(streams[h], AddId(key))
  BY DEF AddedAt, AddId
<1>2. PICK m \in 1..Len(ProbeOrder[key]) : g = ProbeOrder[key][m] /\ Passed(key, m, streams)
  BY <1>1 DEF BookInv, AddsPlaced
<1>3. PICK n \in 1..Len(ProbeOrder[key]) : h = ProbeOrder[key][n] /\ Passed(key, n, streams)
  BY <1>1 DEF BookInv, AddsPlaced
<1>4. ~(m < n)
  BY <1>1, <1>2, <1>3, KeyPlaces DEF Passed
<1>5. ~(n < m)
  BY <1>1, <1>2, <1>3, KeyPlaces DEF Passed
<1>6. m = n
  BY <1>4, <1>5, KeyPlaces
<1> QED BY <1>2, <1>3, <1>6

------------------------------------------------------------------------------
(* The request book.                                                        *)

LEMMA BookedAt ==
  ASSUME NEW key \in Keys
  PROVE  /\ AddedHarp(key) \in Harps \cup {NoHarp}
         /\ AddedHarp(key) = NoHarp <=> AddedAt(key) = {}
         /\ AddedAt(key) # {} => AddedHarp(key) \in AddedAt(key)
<1>1. AddedAt(key) \subseteq Harps /\ NoHarp \notin Harps
  BY RequestsAssumption DEF AddedAt
<1>2. AddedAt(key) # {} => AddedHarp(key) \in AddedAt(key)
  BY DEF AddedHarp
<1>3. AddedAt(key) = {} => AddedHarp(key) = NoHarp
  BY DEF AddedHarp
<1> QED BY <1>1, <1>2, <1>3

\* A commit of a keyed add books its harp; one of anything else, nothing.
LEMMA CommitBooks ==
  ASSUME NoPrunes, BookInv, BookInv', NEW c \in Clients, Commit(c)
  PROVE  Book!Next \/ UNCHANGED [key \in Keys |-> AddedHarp(key)]
<1> DEFINE h == call[c].harp
<1>1. CASE streams' = streams
  BY <1>1 DEF AddedHarp, AddedAt
<1>2. ASSUME NEW page, page.command_id = CommandId(c),
             \A g \in Harps : streams'[g] = IF g = h THEN Append(streams[h], page)
                                            ELSE streams[g],
             ~Caused(streams[h], CommandId(c)),
             call[c].request.op = "add" <=> streams[h] = <<>>
      PROVE  Book!Next \/ UNCHANGED [key \in Keys |-> AddedHarp(key)]
  <2>1. call[c].pc = "append" /\ h \in Harps /\ StoreInv'
    BY Committed DEF BookInv
  <2>2. \A id : Caused(streams'[h], id) <=> Caused(streams[h], id) \/ id = CommandId(c)
    <3> HIDE DEF h
    <3> QED BY <1>2, <2>1, Appended DEF h
  <2> HIDE DEF h
  <2>3. ASSUME NEW key \in Keys
        PROVE  AddedAt(key)' = AddedAt(key) \cup {g \in {h} : AddId(key) = CommandId(c)}
    BY <1>2, <2>1, <2>2 DEF AddedAt, AddId
  <2>4. ASSUME NEW key \in Keys, AddId(key) # CommandId(c)
        PROVE  AddedHarp(key)' = AddedHarp(key)
    <3>1. AddedAt(key)' = AddedAt(key)
      BY <2>3, <2>4
    <3> QED BY <3>1 DEF AddedHarp
  <2>5. CASE \A key \in Keys : AddId(key) # CommandId(c)
    BY <2>4, <2>5
  <2>6. ASSUME NEW key \in Keys, AddId(key) = CommandId(c)
        PROVE  Book!Add(key, h)
    <3>1. OneTaskPerRequest'
      BY OneTask, PTL
    <3>2. AddedAt(key)' = AddedAt(key) \cup {h} /\ h \notin AddedAt(key)
      BY <1>2, <2>3, <2>6 DEF AddedAt, AddId
    <3>3. \A g \in AddedAt(key)' : g = h
      BY <3>1, <3>2 DEF OneTaskPerRequest
    <3>4. AddedAt(key) = {} /\ AddedAt(key)' = {h}
      BY <3>2, <3>3
    <3>5. AddedHarp(key) = NoHarp /\ AddedHarp(key)' = h
      BY <3>4 DEF AddedHarp
    <3>6. \A other \in Keys : other # key => AddId(other) # CommandId(c)
      BY <2>6 DEF AddId, RequestId
    <3>7. streams[h] = <<>>
      BY <1>2, <2>6, AddIdOf
    <3>8. \A other \in Keys : h \notin AddedAt(other)
      BY <3>7, NoStream DEF AddedAt, Caused
    <3>9. \A other \in Keys : AddedHarp(other) # h
      BY <2>1, <3>8, BookedAt, RequestsAssumption
    <3>10. \A other \in Keys : AddedHarp(other)' = IF other = key THEN h ELSE AddedHarp(other)
      BY <2>4, <3>5, <3>6
    <3> QED BY <3>5, <3>9, <3>10 DEF Book!Add
  <2>7. h \in Harps
    BY <2>1
  <2> QED BY <2>5, <2>6, <2>7 DEF Book!Next
<1> QED BY <1>1, <1>2, Committed

\* A step but a commit leaves the streams, where no one prunes.
LEMMA OthersStand ==
  ASSUME NoPrunes, BookInv, [Next]_vars
  PROVE  streams' = streams \/ \E c \in Clients : Commit(c)
<1>1. CASE UNCHANGED vars
  BY <1>1 DEF vars
<1>2. ASSUME NEW c \in Clients, NEW r \in Sends[c], Begin(c, r) PROVE streams' = streams
  BY <1>2 DEF Begin
<1>3. ASSUME NEW c \in Clients, Step(c) \/ Fail(c), ~Commit(c) PROVE streams' = streams
  <2>1. ~PurgeAt(c)
    BY DEF PurgeAt, BookInv, CallKnown
  <2> QED BY <1>3, <2>1 DEF Step, Fail, Look, ReadOwn, Load, LoadRemoval, List, Take, LoadPurge
<1> QED BY <1>1, <1>2, <1>3 DEF Next

\* Adding under a request key does what RequestBook says of it, however calls
\* interleave, fail and are sent again (add.rs), where no one prunes.
THEOREM RequestsAlwaysBooked == ASSUME NoPrunes PROVE Spec => ImplementsRequestBook
<1>1. Init => Book!Init
  BY BookedAt DEF Book!Init
<1>2. BookInv /\ BookInv' /\ [Next]_vars => [Book!Next]_([k \in Keys |-> AddedHarp(k)])
  <2> SUFFICES ASSUME BookInv, BookInv', [Next]_vars
               PROVE  Book!Next \/ UNCHANGED [k \in Keys |-> AddedHarp(k)]
    OBVIOUS
  <2>1. CASE streams' = streams
    BY <2>1 DEF AddedHarp, AddedAt
  <2> QED BY <2>1, OthersStand, CommitBooks
<1> QED BY <1>1, <1>2, InitKnown, NextKnown, PTL DEF Spec, ImplementsRequestBook, Book!Spec

------------------------------------------------------------------------------
(* What a stream folds to.  The natural numbers are well founded, so a      *)
(* recursive function of them is what its equation says.                    *)

LEMMA Induction ==
  ASSUME NEW T, 0 \in T, \A n \in Nat : n \in T => n + 1 \in T
  PROVE  Nat \subseteq T
<1> DEFINE R == {ss \in Nat \X Nat : ss[1] < ss[2]}
           Rest == Nat \ T
<1> SUFFICES ASSUME Rest # {} PROVE FALSE
  OBVIOUS
<1>1. IsWellFoundedOn(R, Nat)
  BY NatLessThanWellFounded DEF OpToRel
<1>2. PICK n \in Rest : \A m \in Rest : <<m, n>> \notin R
  <2> Rest \subseteq Nat
    OBVIOUS
  <2> HIDE DEF R, Rest
  <2> QED BY <1>1, WFMin
<1>3. n \in Nat /\ n # 0 /\ n - 1 \in Nat /\ (n - 1) + 1 = n
  BY <1>2
<1>4. n - 1 \in Rest
  BY <1>2, <1>3
<1>5. <<n - 1, n>> \in R
  BY <1>3
<1> QED BY <1>2, <1>4, <1>5

\* f[n] is the task the first n of the pages fold to.
Folds(f, pages, m) ==
  f = [n \in 0..m |-> IF n = 0 THEN NoTask
                      ELSE Apply(f[n-1], pages[n].event, pages[n].recorded_at)]

LEMMA FoldsExist == ASSUME NEW pages PROVE \A m \in Nat : \E f : Folds(f, pages, m)
<1> DEFINE T == {m \in Nat : \E f : Folds(f, pages, m)}
<1>1. 0 \in T
  <2>1. Folds([n \in 0..0 |-> NoTask], pages, 0)
    BY DEF Folds
  <2> QED BY <2>1
<1>2. ASSUME NEW m \in Nat, m \in T PROVE m + 1 \in T
  <2>1. PICK f : Folds(f, pages, m)
    BY <1>2
  <2> DEFINE on == Apply(f[m], pages[m + 1].event, pages[m + 1].recorded_at)
             g == [n \in 0..(m + 1) |-> IF n <= m THEN f[n] ELSE on]
  <2>2. (\A n \in 0..m : g[n] = f[n]) /\ g[m + 1] = on
    OBVIOUS
  <2>3. g = [n \in 0..(m + 1) |-> g[n]]
    OBVIOUS
  <2>4. \A n \in 0..m : f[n] = IF n = 0 THEN NoTask
                               ELSE Apply(f[n-1], pages[n].event, pages[n].recorded_at)
    BY <2>1 DEF Folds
  <2> HIDE DEF g
  <2>5. ASSUME NEW n \in 0..(m + 1)
        PROVE  g[n] = IF n = 0 THEN NoTask
                      ELSE Apply(g[n-1], pages[n].event, pages[n].recorded_at)
    <3>1. CASE n = m + 1
      <4>1. n # 0 /\ n - 1 = m /\ m \in 0..m
        BY <3>1
      <4> QED BY <2>2, <3>1, <4>1
    <3>2. CASE n \in 0..m
      <4>1. n # 0 => n - 1 \in 0..m
        BY <3>2
      <4> QED BY <2>2, <2>4, <3>2, <4>1
    <3> QED BY <3>1, <3>2
  <2>6. Folds(g, pages, m + 1)
    BY <2>3, <2>5 DEF Folds
  <2> QED BY <2>6
<1>3. Nat \subseteq T
  <2> HIDE DEF T
  <2> QED BY <1>1, <1>2, Induction
<1> QED BY <1>3

LEMMA FoldedIs ==
  ASSUME NEW pages, Len(pages) \in Nat
  PROVE  \E f : Folds(f, pages, Len(pages)) /\ Folded(pages) = f[Len(pages)]
<1>1. \E f : Folds(f, pages, Len(pages))
  BY FoldsExist
<1> QED BY <1>1 DEF Folded, Folds

\* One page more is one event more applied.
LEMMA FoldedAppend ==
  ASSUME NEW s, IsStream(s), NEW page
  PROVE  Folded(Append(s, page)) = Apply(Folded(s), page.event, page.recorded_at)
<1> DEFINE t == Append(s, page)
           L == Len(s)
<1>1. /\ L \in Nat /\ Len(t) = L + 1 /\ t[L + 1] = page
      /\ \A i \in 1..L : t[i] = s[i]
  BY AppendedPage
<1> HIDE DEF t
<1>2. PICK f : Folds(f, s, L) /\ Folded(s) = f[L]
  BY <1>1, FoldedIs
<1> HIDE DEF L
<1>3. PICK g : Folds(g, t, L + 1) /\ Folded(t) = g[L + 1]
  <2>1. Len(t) \in Nat
    BY <1>1
  <2>2. \E f_2 : Folds(f_2, t, Len(t)) /\ Folded(t) = f_2[Len(t)]
    BY <2>1, FoldedIs
  <2> QED BY <1>1, <2>2
<1>4. \A n \in 0..L : f[n] = IF n = 0 THEN NoTask
                             ELSE Apply(f[n-1], s[n].event, s[n].recorded_at)
  BY <1>2 DEF Folds
<1>5. \A n \in 0..(L + 1) : g[n] = IF n = 0 THEN NoTask
                                   ELSE Apply(g[n-1], t[n].event, t[n].recorded_at)
  BY <1>3 DEF Folds
<1> DEFINE T == {n \in Nat : n <= L => f[n] = g[n]}
<1>6. 0 \in T
  <2>1. 0 \in 0..L /\ 0 \in 0..(L + 1)
    BY <1>1
  <2>2. f[0] = NoTask /\ g[0] = NoTask
    BY <1>4, <1>5, <2>1
  <2> QED BY <2>2
<1>7. ASSUME NEW n \in Nat, n \in T, n + 1 <= L PROVE f[n + 1] = g[n + 1]
  <2>1. /\ n + 1 \in 0..L /\ n + 1 \in 0..(L + 1) /\ n + 1 # 0 /\ (n + 1) - 1 = n
        /\ n + 1 \in 1..L /\ n <= L
    BY <1>1, <1>7
  <2>2. f[n + 1] = Apply(f[n], s[n + 1].event, s[n + 1].recorded_at)
    BY <1>4, <2>1
  <2>3. g[n + 1] = Apply(g[n], t[n + 1].event, t[n + 1].recorded_at)
    BY <1>5, <2>1
  <2>4. t[n + 1] = s[n + 1] /\ f[n] = g[n]
    BY <1>1, <1>7, <2>1
  <2> QED BY <2>2, <2>3, <2>4
<1>8. Nat \subseteq T
  <2>1. \A n \in Nat : n \in T => n + 1 \in T
    BY <1>1, <1>7
  <2> HIDE DEF T
  <2> QED BY <1>6, <2>1, Induction
<1>9. f[L] = g[L]
  <2>1. L \in T
    BY <1>1, <1>8
  <2> QED BY <1>1, <2>1
<1>10. g[L + 1] = Apply(g[L], page.event, page.recorded_at)
  <2>1. L + 1 \in 0..(L + 1) /\ L + 1 # 0 /\ (L + 1) - 1 = L
    BY <1>1
  <2> QED BY <1>1, <1>5, <2>1
<1> QED BY <1>2, <1>3, <1>9, <1>10 DEF t

\* What is recorded adds, moves or removes, and only a prune's removes.
LEMMA DecidedKind ==
  ASSUME NEW k, k.request \in Requests, Records(Decided(k))
  PROVE  /\ Decided(k).event.type \in {"TaskAdded", "StatusChanged", "TaskRemoved"}
         /\ Decided(k).event.type = "TaskRemoved" => k.request.op = "prune"
<1> DEFINE taken == k.loaded # <<>>
           held == Folded(k.loaded)
           c == CommandIn(k)
<1>1. Decided(k) = Decide(held, taken, c)
  BY DEF Decided
<1>2. CASE k.request.op = "add"
  <2>1. c.type = "AddTask"
    BY <1>2 DEF CommandIn, Requests, Adds, Prunes, Changes, AddTaskCommands
  <2> HIDE DEF taken, held, c
  <2>2. Decide(held, taken, c) = DecideAdd(taken, c)
    BY <2>1 DEF Decide
  <2> QED BY <1>1, <2>2 DEF DecideAdd, Records, Refused, Recorded, NoEvent, TaskAddedOf
<1>3. CASE k.request.op = "set_status"
  <2>1. c.type = "SetStatus"
    BY <1>3 DEF CommandIn, Requests, Adds, Prunes, Changes, SetStatusCommands
  <2> HIDE DEF taken, held, c
  <2>2. Decide(held, taken, c) = DecideSetStatus(held, c)
    BY <2>1 DEF Decide
  <2>3. Decided(k) = Moved(held, c)
    BY <1>1, <2>2 DEF DecideSetStatus, Records, Refused, NoEvent
  <2> QED BY <2>3 DEF Moved, Recorded, Refused, Unchanged, NoEvent, Deferring, Resting, Records
<1>4. CASE k.request.op = "prune"
  <2>1. c.type = "RemoveTask"
    BY <1>4 DEF CommandIn, Requests, Adds, Prunes, Changes, RemoveTaskCommands
  <2> HIDE DEF taken, held, c
  <2>2. Decide(held, taken, c) = DecideRemove(held, c)
    BY <2>1 DEF Decide
  <2> QED BY <1>1, <1>4, <2>2 DEF DecideRemove, Recorded, Refused, NoEvent, Records
<1>5. k.request.op \in {"add", "set_status", "prune"}
  BY DEF Requests, Adds, Prunes, Changes
<1> QED BY <1>2, <1>3, <1>4, <1>5

\* What is applied to a task removed leaves it so, and a removal removes it.
LEMMA AppliedRemoval ==
  ASSUME NEW task, "removed" \in DOMAIN task, NEW e, NEW at,
         e.type \in {"TaskAdded", "StatusChanged", "TaskRemoved"}
  PROVE  /\ "removed" \in DOMAIN Apply(task, e, at)
         /\ task.removed => Apply(task, e, at).removed
         /\ e.type = "TaskRemoved" => Apply(task, e, at).removed
<1>1. CASE e.type = "TaskAdded"
  BY <1>1 DEF Apply, ApplyAdded
<1>2. CASE e.type = "StatusChanged"
  BY <1>2 DEF Apply, ApplyStatusChanged
<1>3. CASE e.type = "TaskRemoved"
  BY <1>3 DEF Apply
<1> QED BY <1>1, <1>2, <1>3

------------------------------------------------------------------------------
(* A prune finishes what it found half done.                                *)

\* A task is removed once its stream ends with a prune's removal.
TasksHeld ==
  /\ purges \in [Harps -> Nat]
  /\ \A h \in Harps : /\ "removed" \in DOMAIN Task(h)
                      /\ Unpurged(h) => Task(h).removed

\* Call k purged since it listed it each task it found removed and unpurged, or
\* has still to come to it, removed as it is.
FoundLeft(k) ==
  /\ k.pc = "idle" => k.request.op # "prune"
  /\ \A h \in DOMAIN k.found :
       /\ h \in Harps
       /\ k.found[h] \in Nat
       /\ \/ purges[h] > k.found[h]
          \/ /\ purges[h] = k.found[h]
             /\ Task(h).removed
             /\ h \in k.unpurged \/ (k.harp = h /\ k.pc \in {"purge_load", "purge"})

PruneInv == StoreInv /\ TasksHeld /\ \A c \in Clients : FoundLeft(call[c])

\* A step purges a harp's stream, or leaves a task on it removed if it was.
RemovalsStand ==
  \A h \in Harps : \/ purges'[h] > purges[h]
                   \/ purges'[h] = purges[h] /\ (Task(h).removed => Task(h)'.removed)

LEMMA InitPrune == Init => PruneInv
<1> SUFFICES ASSUME Init PROVE PruneInv
  OBVIOUS
<1>1. \A c \in Clients : FoundLeft(call[c])
  BY DEF Init, FoundLeft, Idle, NoRequest, NothingFound
<1>2. ASSUME NEW h \in Harps
      PROVE  "removed" \in DOMAIN Task(h) /\ (Unpurged(h) => Task(h).removed)
  <2>1. streams[h] \in {<<>>} \cup OldStreams(h)
    BY DEF Init
  <2>2. CASE streams[h] = <<>>
    BY <2>2, NothingFolded DEF Task, Unpurged, NoTask
  <2>3. CASE streams[h] \in OldStreams(h)
    <3>1. PICK a \in OldTasks :
            streams[h] = <<[event |-> TaskAddedOf([a EXCEPT !.harp_id = h]),
                            recorded_at |-> Old, command_id |-> OldId]>>
      BY <2>3 DEF OldStreams
    <3> DEFINE page == [event |-> TaskAddedOf([a EXCEPT !.harp_id = h]),
                        recorded_at |-> Old, command_id |-> OldId]
    <3>2. page.event.type = "TaskAdded"
      BY DEF TaskAddedOf
    <3> HIDE DEF page
    <3>3. streams[h] = <<page>> /\ <<page>> = Append(<<>>, page)
      BY <3>1 DEF page
    <3>4. Task(h) = Apply(NoTask, page.event, page.recorded_at)
      BY <3>3, FoldedAppend, NoStream, NothingFolded DEF Task
    <3>5. "removed" \in DOMAIN NoTask
      BY DEF NoTask
    <3>6. "removed" \in DOMAIN Task(h)
      BY <3>2, <3>4, <3>5, AppliedRemoval
    <3>7. ~Unpurged(h)
      BY <3>2, <3>3 DEF Unpurged
    <3> QED BY <3>6, <3>7
  <2> QED BY <2>1, <2>2, <2>3
<1>3. TasksHeld
  BY <1>2 DEF Init, TasksHeld
<1> QED BY <1>1, <1>3, InitWhole DEF PruneInv

LEMMA TasksStand ==
  ASSUME PruneInv, UNCHANGED <<streams, purges>>
  PROVE  TasksHeld' /\ RemovalsStand
BY DEF PruneInv, TasksHeld, RemovalsStand, Task, Unpurged

\* What call c appends, if the head has not moved.
LEMMA CommitStands ==
  ASSUME PruneInv, NEW c \in Clients, Commit(c)
  PROVE  /\ TasksHeld' /\ RemovalsStand
         /\ \A h \in Harps : \/ streams'[h] = streams[h]
                             \/ /\ h = call[c].harp
                                /\ Unpurged(h)' => call[c].request.op = "prune"
<1> DEFINE event == Decided(call[c]).event
           page == [event |-> event, recorded_at |-> Now, command_id |-> CommandId(c)]
<1>1. /\ call[c].pc = "append" /\ purges' = purges
      /\ \/ /\ ~HeadMoved(c)
            /\ streams' = [streams EXCEPT ![call[c].harp] = Append(@, page)]
         \/ streams' = streams
  <2>1. Decide(Folded(call[c].loaded), call[c].loaded # <<>>, CommandOf(c)) = Decided(call[c])
    BY CommandDecided DEF Decided
  <2> QED BY <2>1 DEF Commit
<1>2. CASE streams' = streams
  BY <1>1, <1>2, TasksStand
<1>3. CASE call[c].harp \notin Harps
  <2>1. streams' = streams
    BY <1>1, <1>3 DEF PruneInv, StoreInv, StreamsWhole
  <2> QED BY <1>2, <2>1
<1>4. ASSUME NEW h \in Harps, h = call[c].harp,
             streams' = [streams EXCEPT ![h] = Append(@, page)]
      PROVE  /\ TasksHeld' /\ RemovalsStand
             /\ \A g \in Harps : g # h => streams'[g] = streams[g]
             /\ Unpurged(h)' => call[c].request.op = "prune"
  <2>1. \A g \in Harps : streams'[g] = IF g = h THEN Append(streams[h], page) ELSE streams[g]
    BY <1>4 DEF PruneInv, StoreInv, StreamsWhole
  <2>2. call[c].request \in Requests /\ Records(Decided(call[c])) /\ IsStream(streams[h])
    BY <1>1, <1>4 DEF PruneInv, StoreInv, CallDecided, StreamsWhole
  <2>3. /\ page.event.type \in {"TaskAdded", "StatusChanged", "TaskRemoved"}
        /\ page.event.type = "TaskRemoved" => call[c].request.op = "prune"
    BY <2>2, DecidedKind
  <2> HIDE DEF page
  <2>4. Task(h)' = Apply(Task(h), page.event, page.recorded_at)
    BY <2>1, <2>2, FoldedAppend DEF Task
  <2>5. "removed" \in DOMAIN Task(h)
    BY DEF PruneInv, TasksHeld
  <2>6. /\ "removed" \in DOMAIN Task(h)'
        /\ Task(h).removed => Task(h)'.removed
        /\ page.event.type = "TaskRemoved" => Task(h)'.removed
    BY <2>3, <2>4, <2>5, AppliedRemoval
  <2>7. Unpurged(h)' => page.event.type = "TaskRemoved"
    <3> DEFINE t == Append(streams[h], page)
    <3>1. Len(t) = Len(streams[h]) + 1 /\ t[Len(streams[h]) + 1] = page
      BY <2>2, AppendedPage
    <3>2. streams'[h] = t
      BY <2>1
    <3> HIDE DEF t
    <3> QED BY <3>1, <3>2 DEF Unpurged
  <2>8. \A g \in Harps : g # h => /\ Task(g)' = Task(g)
                                  /\ Unpurged(g)' = Unpurged(g)
    BY <2>1 DEF Task, Unpurged
  <2>9. TasksHeld'
    BY <1>1, <2>6, <2>7, <2>8 DEF PruneInv, TasksHeld
  <2>10. RemovalsStand
    BY <1>1, <2>6, <2>8 DEF RemovalsStand
  <2> QED BY <2>1, <2>3, <2>7, <2>9, <2>10
<1> QED BY <1>1, <1>2, <1>3, <1>4

\* A purge leaves no page, and counts.
LEMMA PurgeStands ==
  ASSUME PruneInv, NEW c \in Clients, PurgeAt(c)
  PROVE  TasksHeld' /\ RemovalsStand
<1>1. CASE UNCHANGED <<streams, purges>>
  BY <1>1, TasksStand
<1>2. CASE call[c].harp \notin Harps
  <2>1. streams' = streams /\ purges' = purges
    BY <1>2 DEF PurgeAt, PruneInv, StoreInv, StreamsWhole, TasksHeld
  <2> QED BY <1>1, <2>1
<1>3. ASSUME NEW h \in Harps, streams' = [streams EXCEPT ![h] = <<>>],
             purges' = [purges EXCEPT ![h] = @ + 1]
      PROVE  TasksHeld' /\ RemovalsStand
  <2>1. \A g \in Harps : streams'[g] = IF g = h THEN <<>> ELSE streams[g]
    BY <1>3 DEF PruneInv, StoreInv, StreamsWhole
  <2>2. /\ purges' \in [Harps -> Nat]
        /\ purges[h] \in Nat /\ purges'[h] = purges[h] + 1
        /\ \A g \in Harps : g # h => purges'[g] = purges[g]
    BY <1>3 DEF PruneInv, TasksHeld
  <2>3. "removed" \in DOMAIN Task(h)' /\ ~Unpurged(h)'
    BY <2>1, NothingFolded DEF Task, Unpurged, NoTask
  <2>4. \A g \in Harps : g # h => /\ Task(g)' = Task(g)
                                  /\ Unpurged(g)' = Unpurged(g)
    BY <2>1 DEF Task, Unpurged
  <2>5. TasksHeld'
    BY <2>2, <2>3, <2>4 DEF PruneInv, TasksHeld
  <2>6. RemovalsStand
    BY <2>2, <2>4 DEF RemovalsStand
  <2> QED BY <2>5, <2>6
<1> QED BY <1>1, <1>2, <1>3 DEF PurgeAt

\* Of a prune that ends in this step having run to its end.
Finishes(c) ==
  call[c].request.op = "prune" /\ answer'[c].kind = "pruned" /\ call'[c].pc = "idle"
    => \A h \in DOMAIN call[c].found : purges[h] > call[c].found[h]

\* What a call found, it has purged or left as it was, when a step has been.
LEMMA FoundStays ==
  ASSUME PruneInv, RemovalsStand, TasksHeld', NEW c \in Clients, NEW k,
         k.pc # "idle",
         k.found = call[c].found,
         \A h \in DOMAIN k.found :
           \/ purges'[h] > k.found[h]
           \/ h \in call[c].unpurged => h \in k.unpurged \/ (k.harp = h /\ k.pc = "purge_load"),
         \A h \in DOMAIN k.found :
           call[c].harp = h /\ call[c].pc \in {"purge_load", "purge"} =>
             \/ purges'[h] > k.found[h]
             \/ ~Task(h).removed
             \/ k.harp = h /\ k.pc \in {"purge_load", "purge"}
  PROVE  /\ \A h \in DOMAIN k.found :
              /\ h \in Harps
              /\ k.found[h] \in Nat
              /\ \/ purges'[h] > k.found[h]
                 \/ /\ purges'[h] = k.found[h]
                    /\ Task(h)'.removed
                    /\ h \in k.unpurged \/ (k.harp = h /\ k.pc \in {"purge_load", "purge"})
<1> SUFFICES ASSUME NEW h \in DOMAIN k.found
             PROVE  /\ h \in Harps
                    /\ k.found[h] \in Nat
                    /\ \/ purges'[h] > k.found[h]
                       \/ /\ purges'[h] = k.found[h]
                          /\ Task(h)'.removed
                          /\ h \in k.unpurged
                               \/ (k.harp = h /\ k.pc \in {"purge_load", "purge"})
  OBVIOUS
<1>1. /\ h \in Harps
      /\ k.found[h] \in Nat
      /\ \/ purges[h] > k.found[h]
         \/ /\ purges[h] = k.found[h]
            /\ Task(h).removed
            /\ \/ h \in call[c].unpurged
               \/ call[c].harp = h /\ call[c].pc \in {"purge_load", "purge"}
  BY DEF PruneInv, FoundLeft
<1>2. /\ purges[h] \in Nat /\ purges'[h] \in Nat
      /\ \/ purges'[h] > purges[h]
         \/ purges'[h] = purges[h] /\ (Task(h).removed => Task(h)'.removed)
  BY <1>1 DEF PruneInv, TasksHeld, RemovalsStand
<1>3. CASE purges[h] > k.found[h] \/ purges'[h] > purges[h]
  BY <1>1, <1>2, <1>3
<1>4. CASE purges[h] = k.found[h] /\ purges'[h] = purges[h]
  BY <1>1, <1>2, <1>4
<1> QED BY <1>1, <1>2, <1>3, <1>4

\* Another's call keeps what it found.
LEMMA OthersFound ==
  ASSUME PruneInv, RemovalsStand, TasksHeld', NEW k, FoundLeft(k)
  PROVE  FoundLeft(k)'
<1> SUFFICES ASSUME NEW h \in DOMAIN k.found
             PROVE  /\ h \in Harps
                    /\ k.found[h] \in Nat
                    /\ \/ purges'[h] > k.found[h]
                       \/ /\ purges'[h] = k.found[h]
                          /\ Task(h)'.removed
                          /\ h \in k.unpurged
                               \/ (k.harp = h /\ k.pc \in {"purge_load", "purge"})
  BY DEF FoundLeft
<1>1. /\ h \in Harps
      /\ k.found[h] \in Nat
      /\ \/ purges[h] > k.found[h]
         \/ /\ purges[h] = k.found[h]
            /\ Task(h).removed
            /\ h \in k.unpurged \/ (k.harp = h /\ k.pc \in {"purge_load", "purge"})
  BY DEF FoundLeft
<1>2. /\ purges[h] \in Nat /\ purges'[h] \in Nat
      /\ \/ purges'[h] > purges[h]
         \/ purges'[h] = purges[h] /\ (Task(h).removed => Task(h)'.removed)
  BY <1>1 DEF PruneInv, TasksHeld, RemovalsStand
<1> QED BY <1>1, <1>2

\* A call that goes on, or ends: what of it is left, and its answer.
LEMMA PruneMoves ==
  ASSUME PruneInv, StoreInv', TasksHeld', RemovalsStand, NEW c \in Clients, NEW k,
         call' = [call EXCEPT ![c] = k], FoundLeft(k)', Finishes(c)
  PROVE  PruneInv' /\ \A d \in Clients : Finishes(d)
<1>1. \A d \in Clients : call'[d] = IF d = c THEN k ELSE call[d]
  BY DEF PruneInv, StoreInv
<1>2. ASSUME NEW d \in Clients, d # c PROVE FoundLeft(call[d])' /\ Finishes(d)
  <2>1. call'[d] = call[d] /\ FoundLeft(call[d])
    BY <1>1, <1>2 DEF PruneInv
  <2>2. FoundLeft(call[d])'
    BY <2>1, OthersFound
  <2>3. Finishes(d)
    BY <2>1 DEF Finishes, FoundLeft
  <2> QED BY <2>2, <2>3
<1>3. FoundLeft(call[c])'
  BY <1>1
<1> QED BY <1>2, <1>3 DEF PruneInv

LEMMA PruneGoes ==
  ASSUME PruneInv, StoreInv', TasksHeld', RemovalsStand, NEW c \in Clients, NEW k,
         Goes(c, k), k.pc # "idle", FoundLeft(k)'
  PROVE  PruneInv' /\ \A d \in Clients : Finishes(d)
<1>1. call'[c] = k
  BY DEF Goes, PruneInv, StoreInv
<1> QED BY <1>1, PruneMoves DEF Goes, Finishes

\* ... having found what it had found, and come to no more of it.
LEMMA PruneGoesOn ==
  ASSUME PruneInv, StoreInv', TasksHeld', RemovalsStand, NEW c \in Clients, NEW k,
         Goes(c, k), k.pc # "idle", k.found = call[c].found, k.unpurged = call[c].unpurged,
         call[c].pc \in {"purge_load", "purge"} =>
           k.harp = call[c].harp /\ k.pc \in {"purge_load", "purge"}
  PROVE  PruneInv' /\ \A d \in Clients : Finishes(d)
<1>1. FoundLeft(k)'
  <2>1. \A h \in DOMAIN k.found :
           \/ purges'[h] > k.found[h]
           \/ h \in call[c].unpurged => h \in k.unpurged \/ (k.harp = h /\ k.pc = "purge_load")
    OBVIOUS
  <2>2. \A h \in DOMAIN k.found :
          call[c].harp = h /\ call[c].pc \in {"purge_load", "purge"} =>
             \/ purges'[h] > k.found[h]
             \/ ~Task(h).removed
             \/ k.harp = h /\ k.pc \in {"purge_load", "purge"}
    OBVIOUS
  <2> QED BY <2>1, <2>2, FoundStays DEF FoundLeft
<1> QED BY <1>1, PruneGoes

LEMMA PruneEnds ==
  ASSUME PruneInv, StoreInv', TasksHeld', RemovalsStand, NEW c \in Clients, NEW said,
         Ends(c, said),
         \/ said.kind # "pruned"
         \/ \A h \in DOMAIN call[c].found : purges[h] > call[c].found[h]
  PROVE  PruneInv' /\ \A d \in Clients : Finishes(d)
<1>1. answer'[c] = said
  BY DEF Ends, PruneInv, StoreInv
<1>2. FoundLeft(Idle)'
  BY DEF FoundLeft, Idle, NoRequest, NothingFound
<1> QED BY <1>1, <1>2, PruneMoves DEF Ends, Finishes

LEMMA PruneRetries ==
  ASSUME PruneInv, StoreInv', TasksHeld', RemovalsStand, NEW c \in Clients,
         NEW pc \in {"load", "purge_load"}, Retries(c, pc),
         call[c].pc \in {"purge_load", "purge"} => pc = "purge_load"
  PROVE  PruneInv' /\ \A d \in Clients : Finishes(d)
<1> DEFINE k == [call[c] EXCEPT !.pc = pc, !.tries = @ + 1, !.loaded = <<>>, !.seen = 0]
<1>1. CASE Goes(c, k)
  <2>1. IsCall(call[c])
    BY DEF PruneInv, StoreInv, CallDecided
  <2>2. /\ k.pc = pc /\ k.harp = call[c].harp
        /\ k.found = call[c].found /\ k.unpurged = call[c].unpurged
    BY <2>1 DEF IsCall
  <2> HIDE DEF k
  <2> QED BY <1>1, <2>2, PruneGoesOn
<1>2. CASE Ends(c, Said("gave_up"))
  BY <1>2, PruneEnds DEF Said, Answer
<1> QED BY <1>1, <1>2 DEF Retries

LEMMA PruneAdding ==
  ASSUME PruneInv, StoreInv', TasksHeld', RemovalsStand, NEW c \in Clients, NEW position,
         Adding(c, position), call[c].pc \notin {"purge_load", "purge"}
  PROVE  PruneInv' /\ \A d \in Clients : Finishes(d)
<1>1. PICK h : Goes(c, [To(c, "load") EXCEPT !.harp = h, !.probe = position])
  BY DEF Adding
<1> DEFINE k == [To(c, "load") EXCEPT !.harp = h, !.probe = position]
<1>2. IsCall(call[c])
  BY DEF PruneInv, StoreInv, CallDecided
<1>3. k.pc = "load" /\ k.found = call[c].found /\ k.unpurged = call[c].unpurged
  BY <1>2 DEF IsCall, To
<1> HIDE DEF k
<1>4. Goes(c, k)
  BY <1>1 DEF k
<1> QED BY <1>3, <1>4, PruneGoesOn

\* A call goes to another place, its harp and what it found as they were.
LEMMA ToKeeps ==
  ASSUME PruneInv, NEW c \in Clients, NEW pc
  PROVE  /\ To(c, pc).pc = pc /\ To(c, pc).harp = call[c].harp
         /\ To(c, pc).found = call[c].found /\ To(c, pc).unpurged = call[c].unpurged
<1>1. IsCall(call[c])
  BY DEF PruneInv, StoreInv, CallDecided
<1> QED BY <1>1 DEF IsCall, To

LEMMA NextPrune ==
  PruneInv /\ [Next]_vars => PruneInv' /\ \A d \in Clients : Finishes(d)
<1> SUFFICES ASSUME PruneInv, [Next]_vars
             PROVE  PruneInv' /\ \A d \in Clients : Finishes(d)
  OBVIOUS
<1>0. StoreInv'
  BY NextWhole DEF PruneInv
<1>c. \A c \in Clients : IsCall(call[c])
  BY DEF PruneInv, StoreInv, CallDecided
<1>1. CASE UNCHANGED vars
  <2>1. TasksHeld' /\ RemovalsStand
    BY <1>1, TasksStand DEF vars
  <2>2. \A d \in Clients : FoundLeft(call[d])' /\ Finishes(d)
    BY <1>1, <2>1, OthersFound DEF vars, PruneInv, FoundLeft, Finishes
  <2> QED BY <1>0, <2>1, <2>2 DEF PruneInv
<1>2. ASSUME NEW c \in Clients, NEW r \in Sends[c], Begin(c, r)
      PROVE  PruneInv' /\ \A d \in Clients : Finishes(d)
  <2>1. TasksHeld' /\ RemovalsStand
    BY <1>2, TasksStand DEF Begin
  <2>2. PICK k : Goes(c, k) /\ k.pc # "idle" /\ k.found = NothingFound
    BY <1>2, Begun
  <2>3. FoundLeft(k)'
    BY <2>2 DEF FoundLeft, NothingFound
  <2> QED BY <1>0, <2>1, <2>2, <2>3, PruneGoes
<1>3. ASSUME NEW c \in Clients, Look(c)
      PROVE  PruneInv' /\ \A d \in Clients : Finishes(d)
  <2>1. TasksHeld' /\ RemovalsStand /\ call[c].pc = "look"
    BY <1>3, TasksStand DEF Look
  <2>2. CASE Goes(c, FoundOwn(c))
    BY <1>0, <2>1, <2>2, FoundFields, PruneGoesOn DEF PruneInv
  <2>3. ASSUME NEW h, NEW n, Goes(c, [call[c] EXCEPT !.harp = h, !.probe = n])
        PROVE  PruneInv' /\ \A d \in Clients : Finishes(d)
    <3> DEFINE k == [call[c] EXCEPT !.harp = h, !.probe = n]
    <3>1. k.pc = "look" /\ k.found = call[c].found /\ k.unpurged = call[c].unpurged
      BY <1>c, <2>1 DEF IsCall
    <3>2. Goes(c, k)
      BY <2>3
    <3> HIDE DEF k
    <3> QED BY <1>0, <2>1, <3>1, <3>2, PruneGoesOn
  <2>4. CASE Adding(c, 1)
    BY <1>0, <2>1, <2>4, PruneAdding
  <2> QED BY <1>3, <2>2, <2>3, <2>4 DEF Look
<1>4. ASSUME NEW c \in Clients, ReadOwn(c) \/ Fail(c)
      PROVE  PruneInv' /\ \A d \in Clients : Finishes(d)
  <2>1. TasksHeld' /\ RemovalsStand
    BY <1>4, TasksStand DEF ReadOwn, Fail
  <2>2. PICK said : Ends(c, said) /\ said.kind # "pruned"
    BY <1>4 DEF ReadOwn, Fail, Said, Answer
  <2> QED BY <1>0, <2>1, <2>2, PruneEnds
<1>5. ASSUME NEW c \in Clients, Load(c) \/ LoadRemoval(c)
      PROVE  PruneInv' /\ \A d \in Clients : Finishes(d)
  <2>1. TasksHeld' /\ RemovalsStand /\ call[c].pc = "load"
    BY <1>5, TasksStand DEF Load, LoadRemoval
  <2>2. ASSUME NEW pc, pc # "idle", Goes(c, To(c, pc))
        PROVE  PruneInv' /\ \A d \in Clients : Finishes(d)
    BY <1>0, <2>1, <2>2, ToKeeps, PruneGoesOn
  <2>3. CASE Goes(c, Reads(c, "append")) \/ Goes(c, FoundOwn(c))
    <3>1. PICK k : /\ Goes(c, k) /\ k.pc # "idle"
                   /\ k.found = call[c].found /\ k.unpurged = call[c].unpurged
      BY <2>3, ReadsFields, FoundFields DEF PruneInv
    <3> QED BY <1>0, <2>1, <3>1, PruneGoesOn
  <2>4. ASSUME NEW said, said.kind # "pruned", Ends(c, said)
        PROVE  PruneInv' /\ \A d \in Clients : Finishes(d)
    BY <1>0, <2>1, <2>4, PruneEnds
  <2>5. CASE Adding(c, call[c].probe + 1)
    BY <1>0, <2>1, <2>5, PruneAdding
  <2>6. CASE Retries(c, "load")
    BY <1>0, <2>1, <2>6, PruneRetries
  <2>7. CASE Load(c)
    <3>1. \/ Goes(c, FoundOwn(c))
          \/ Goes(c, Reads(c, "append"))
          \/ Ends(c, Answer("task", call[c].harp)) \/ Ends(c, Said("exhausted"))
          \/ Ends(c, Said("refused"))
          \/ Adding(c, call[c].probe + 1)
          \/ Retries(c, "load")
      BY <2>7 DEF Load
    <3> QED BY <2>2, <2>3, <2>4, <2>5, <2>6, <3>1 DEF Said, Answer
  <2>8. CASE LoadRemoval(c)
    <3>1. \/ Goes(c, To(c, "take")) \/ Goes(c, To(c, "purge_load"))
          \/ Goes(c, Reads(c, "append"))
          \/ Retries(c, "load")
      BY <2>8 DEF LoadRemoval
    <3> QED BY <2>2, <2>3, <2>6, <3>1
  <2> QED BY <1>5, <2>7, <2>8
<1>6. ASSUME NEW c \in Clients, Commit(c)
      PROVE  PruneInv' /\ \A d \in Clients : Finishes(d)
  <2>1. TasksHeld' /\ RemovalsStand /\ call[c].pc = "append"
    BY <1>6, CommitStands DEF Commit
  <2>2. \/ Goes(c, To(c, "purge_load"))
        \/ Ends(c, Answer("task", call[c].harp))
        \/ Retries(c, "load")
    BY <1>6 DEF Commit
  <2>3. CASE Goes(c, To(c, "purge_load"))
    BY <1>0, <2>1, <2>3, ToKeeps, PruneGoesOn
  <2>4. CASE Ends(c, Answer("task", call[c].harp))
    BY <1>0, <2>1, <2>4, PruneEnds DEF Answer
  <2>5. CASE Retries(c, "load")
    BY <1>0, <2>1, <2>5, PruneRetries
  <2> QED BY <2>2, <2>3, <2>4, <2>5
<1>7. ASSUME NEW c \in Clients, List(c)
      PROVE  PruneInv' /\ \A d \in Clients : Finishes(d)
  <2>0. PICK left, k :
          /\ left = {h \in Harps : Unpurged(h)}
          /\ k = [To(c, "take") EXCEPT !.todo = {h \in Harps : Qualifies(Task(h))},
                                       !.unpurged = left,
                                       !.found = [h \in left |-> purges[h]]]
    OBVIOUS
  <2>1. TasksHeld' /\ RemovalsStand /\ streams' = streams /\ purges' = purges
    BY <1>7, TasksStand DEF List
  <2>2. Goes(c, k)
    BY <1>7, <2>0 DEF List
  <2>3. k.pc = "take" /\ k.unpurged = left /\ k.found = [h \in left |-> purges[h]]
    BY <1>c, <2>0 DEF IsCall, To
  <2>4. \A h \in left : h \in Harps /\ purges[h] \in Nat /\ Task(h).removed
    BY <2>0 DEF PruneInv, TasksHeld
  <2>5. \A h : Task(h)' = Task(h)
    BY <2>1 DEF Task
  <2>6. FoundLeft(k)'
    BY <2>1, <2>3, <2>4, <2>5 DEF FoundLeft
  <2> QED BY <1>0, <2>1, <2>2, <2>3, <2>6, PruneGoes
<1>8. ASSUME NEW c \in Clients, Take(c)
      PROVE  PruneInv' /\ \A d \in Clients : Finishes(d)
  <2>1. TasksHeld' /\ RemovalsStand /\ call[c].pc = "take"
    BY <1>8, TasksStand DEF Take
  <2>2. ASSUME NEW h, Goes(c, [To(c, "load") EXCEPT !.harp = h, !.todo = @ \ {h}])
        PROVE  PruneInv' /\ \A d \in Clients : Finishes(d)
    <3> DEFINE k == [To(c, "load") EXCEPT !.harp = h, !.todo = @ \ {h}]
    <3>1. k.pc = "load" /\ k.found = call[c].found /\ k.unpurged = call[c].unpurged
      BY <1>c DEF IsCall, To
    <3>2. Goes(c, k)
      BY <2>2
    <3> HIDE DEF k
    <3> QED BY <1>0, <2>1, <3>1, <3>2, PruneGoesOn
  <2>3. ASSUME NEW h, Goes(c, [To(c, "purge_load") EXCEPT !.harp = h, !.unpurged = @ \ {h}])
        PROVE  PruneInv' /\ \A d \in Clients : Finishes(d)
    <3>0. PICK k : k = [To(c, "purge_load") EXCEPT !.harp = h, !.unpurged = @ \ {h}]
      OBVIOUS
    <3>1. /\ k.pc = "purge_load" /\ k.harp = h /\ k.found = call[c].found
          /\ k.unpurged = call[c].unpurged \ {h}
      BY <1>c, <3>0 DEF IsCall, To
    <3>2. Goes(c, k)
      BY <2>3, <3>0
    <3>3. \A g \in DOMAIN k.found :
           \/ purges'[g] > k.found[g]
           \/ g \in call[c].unpurged => g \in k.unpurged \/ (k.harp = g /\ k.pc = "purge_load")
      BY <3>1
    <3>4. FoundLeft(k)'
      BY <2>1, <3>1, <3>3, FoundStays DEF FoundLeft
    <3> QED BY <1>0, <2>1, <3>1, <3>2, <3>4, PruneGoes
  <2>4. CASE call[c].todo \cup call[c].unpurged = {} /\ Ends(c, Said("pruned"))
    <3>1. \A h \in DOMAIN call[c].found : purges[h] > call[c].found[h]
      BY <2>1, <2>4 DEF PruneInv, FoundLeft
    <3> QED BY <1>0, <2>1, <2>4, <3>1, PruneEnds
  <2> QED BY <1>8, <2>2, <2>3, <2>4 DEF Take
<1>9. ASSUME NEW c \in Clients, LoadPurge(c)
      PROVE  PruneInv' /\ \A d \in Clients : Finishes(d)
  <2>1. TasksHeld' /\ RemovalsStand /\ call[c].pc = "purge_load"
    BY <1>9, TasksStand DEF LoadPurge
  <2>2. CASE ~Folded(Held(c)).removed /\ Goes(c, To(c, "take"))
    <3>0. PICK k : k = To(c, "take")
      OBVIOUS
    <3>1. k.pc = "take" /\ k.found = call[c].found /\ k.unpurged = call[c].unpurged
      BY <3>0, ToKeeps
    <3>2. Goes(c, k)
      BY <2>2, <3>0
    <3>3. \A h \in DOMAIN k.found : call[c].harp = h => ~Task(h).removed
      BY <2>2 DEF Held, Task
    <3>4. FoundLeft(k)'
      BY <2>1, <3>1, <3>3, FoundStays DEF FoundLeft
    <3> QED BY <1>0, <2>1, <3>1, <3>2, <3>4, PruneGoes
  <2>3. CASE Goes(c, Reads(c, "purge"))
    <3> DEFINE k == Reads(c, "purge")
    <3>1. /\ k.pc = "purge" /\ k.harp = call[c].harp
          /\ k.found = call[c].found /\ k.unpurged = call[c].unpurged
      BY ReadsFields DEF PruneInv
    <3>2. Goes(c, k)
      BY <2>3
    <3> HIDE DEF k
    <3> QED BY <1>0, <2>1, <3>1, <3>2, PruneGoesOn
  <2>4. CASE Retries(c, "purge_load")
    BY <1>0, <2>1, <2>4, PruneRetries
  <2> QED BY <1>9, <2>2, <2>3, <2>4 DEF LoadPurge
<1>10. ASSUME NEW c \in Clients, PurgeAt(c)
       PROVE  PruneInv' /\ \A d \in Clients : Finishes(d)
  <2>1. TasksHeld' /\ RemovalsStand /\ call[c].pc = "purge"
    BY <1>10, PurgeStands DEF PurgeAt
  <2>2. CASE purges' = [purges EXCEPT ![call[c].harp] = @ + 1] /\ Goes(c, To(c, "take"))
    <3>0. PICK k : k = To(c, "take")
      OBVIOUS
    <3>1. k.pc = "take" /\ k.found = call[c].found /\ k.unpurged = call[c].unpurged
      BY <3>0, ToKeeps
    <3>2. Goes(c, k)
      BY <2>2, <3>0
    <3>3. ASSUME NEW h \in DOMAIN k.found, call[c].harp = h PROVE purges'[h] > k.found[h]
      <4>1. /\ h \in Harps /\ k.found[h] \in Nat
            /\ purges[h] > k.found[h] \/ purges[h] = k.found[h]
        BY <3>1, <3>3 DEF PruneInv, FoundLeft
      <4>2. purges[h] \in Nat /\ purges'[h] = purges[h] + 1
        BY <2>2, <3>3, <4>1 DEF PruneInv, TasksHeld
      <4> QED BY <4>1, <4>2
    <3>4. FoundLeft(k)'
      BY <2>1, <3>1, <3>3, FoundStays DEF FoundLeft
    <3> QED BY <1>0, <2>1, <3>1, <3>2, <3>4, PruneGoes
  <2>3. CASE Retries(c, "purge_load")
    BY <1>0, <2>1, <2>3, PruneRetries
  <2> QED BY <1>10, <2>2, <2>3 DEF PurgeAt
<1> QED
  BY <1>1, <1>2, <1>3, <1>4, <1>5, <1>6, <1>7, <1>8, <1>9, <1>10 DEF Next, Step

\* A prune that runs to its end has finished each prune it found half done,
\* beside any other calls: each task it listed removed and unpurged stays so,
\* whatever is recorded on its stream, until some prune purges it (prune.rs,
\* purge_removed).
THEOREM EveryPruneFinishes == Spec => FinishesUnpurged
<1>1. PruneInv /\ [Next]_vars =>
        [\A c \in Clients :
           call[c].request.op = "prune" /\ answer'[c].kind = "pruned" /\ call'[c].pc = "idle"
             => \A h \in DOMAIN call[c].found : purges[h] > call[c].found[h]]_vars
  BY NextPrune DEF Finishes
<1> QED BY <1>1, InitPrune, NextPrune, PTL DEF Spec, FinishesUnpurged

------------------------------------------------------------------------------
(* A prune acts by what it read: what it read stands at the head it read, or  *)
(* was purged since.                                                        *)

\* Pages loaded of a stream that is so still, or has grown since.
Since(loaded, pages) ==
  /\ Len(loaded) \in Nat
  /\ Len(loaded) <= Len(pages)
  /\ Len(loaded) = Len(pages) => loaded = pages

\* What call k read is its stream as it stands, grown or not, or it was purged.
Stands(k) ==
  k.harp \in Harps =>
    /\ k.seen \in Nat
    /\ k.seen <= purges[k.harp]
    /\ k.seen = purges[k.harp] => Since(k.loaded, streams[k.harp])

\* What a prune is about to remove qualified as loaded, and what it is about to
\* purge was removed.
Meant(k) ==
  /\ k.pc = "append" /\ k.request.op = "prune" => Qualifies(Folded(k.loaded)) /\ Stands(k)
  /\ k.pc = "purge" => Folded(k.loaded).removed /\ Stands(k)

ReadInv == PruneInv /\ \A c \in Clients : Meant(call[c])

\* A step purges a harp's stream, or leaves what was on it.
StreamsMove ==
  \A h \in Harps :
    \/ purges'[h] > purges[h]
    \/ /\ purges'[h] = purges[h]
       /\ streams'[h] = streams[h] \/ Len(streams'[h]) > Len(streams[h])

\* If this step is c's, a prune, what it does to a stream it does as it read it.
Rightly(c) ==
  call'[c] # call[c] /\ call[c].request.op = "prune" /\ streams' # streams
    => \/ PurgedSinceSeen(c)
       \/ call[c].pc = "append" /\ Qualifies(Task(call[c].harp))
       \/ call[c].pc = "purge" /\ Task(call[c].harp).removed

LEMMA StreamLengths ==
  ASSUME PruneInv, NEW h \in Harps PROVE Len(streams[h]) \in Nat /\ purges[h] \in Nat
BY StreamLength DEF PruneInv, StoreInv, StreamsWhole, TasksHeld

LEMMA StandsStill ==
  ASSUME ReadInv, PruneInv', StreamsMove, NEW k, Stands(k) PROVE Stands(k)'
<1> SUFFICES ASSUME k.harp \in Harps
             PROVE  /\ k.seen \in Nat
                    /\ k.seen <= purges'[k.harp]
                    /\ k.seen = purges'[k.harp] => Since(k.loaded, streams'[k.harp])
  BY DEF Stands
<1> DEFINE h == k.harp
<1>1. Len(streams[h]) \in Nat /\ purges[h] \in Nat
  BY StreamLengths DEF ReadInv
<1>2. Len(streams'[h]) \in Nat /\ purges'[h] \in Nat
  BY StreamLength DEF PruneInv, StoreInv, StreamsWhole, TasksHeld
<1>3. /\ k.seen \in Nat /\ k.seen <= purges[h]
      /\ k.seen = purges[h] => Since(k.loaded, streams[h])
  BY DEF Stands
<1>4. \/ purges'[h] > purges[h]
      \/ /\ purges'[h] = purges[h]
         /\ streams'[h] = streams[h] \/ Len(streams'[h]) > Len(streams[h])
  BY DEF StreamsMove
<1>5. CASE purges'[h] > purges[h]
  BY <1>1, <1>2, <1>3, <1>5
<1>6. CASE purges'[h] = purges[h] /\ streams'[h] = streams[h]
  BY <1>3, <1>6
<1>7. CASE purges'[h] = purges[h] /\ Len(streams'[h]) > Len(streams[h])
  BY <1>1, <1>2, <1>3, <1>7 DEF Since
<1> QED BY <1>4, <1>5, <1>6, <1>7

LEMMA ReadMoves ==
  ASSUME ReadInv, PruneInv', NEW c \in Clients, NEW k, call' = [call EXCEPT ![c] = k],
         Meant(k)', StreamsMove, Rightly(c)
  PROVE  ReadInv' /\ \A d \in Clients : Rightly(d)
<1>1. \A d \in Clients : call'[d] = IF d = c THEN k ELSE call[d]
  BY DEF ReadInv, PruneInv, StoreInv
<1>2. ASSUME NEW d \in Clients, d # c PROVE Meant(call[d])' /\ Rightly(d)
  <2>1. PICK e : e = call[d]
    OBVIOUS
  <2>2. call'[d] = e /\ Meant(e)
    BY <1>1, <1>2, <2>1 DEF ReadInv
  <2>3. Stands(e) => Stands(e)'
    BY StandsStill
  <2>4. Meant(e)'
    BY <2>2, <2>3 DEF Meant
  <2> QED BY <2>1, <2>2, <2>4 DEF Rightly
<1>3. Meant(call[c])'
  BY <1>1
<1> QED BY <1>1, <1>2, <1>3 DEF ReadInv

\* A call gone on deciding nothing by what it loaded, and one ended.
LEMMA ReadGoes ==
  ASSUME ReadInv, PruneInv', NEW c \in Clients, NEW k, Goes(c, k),
         k.pc \notin {"append", "purge"}, StreamsMove, Rightly(c)
  PROVE  ReadInv' /\ \A d \in Clients : Rightly(d)
<1>1. Meant(k)'
  BY DEF Meant
<1> QED BY <1>1, ReadMoves DEF Goes

LEMMA ReadEnds ==
  ASSUME ReadInv, PruneInv', NEW c \in Clients, NEW said, Ends(c, said),
         StreamsMove, Rightly(c)
  PROVE  ReadInv' /\ \A d \in Clients : Rightly(d)
<1>1. Meant(Idle)'
  BY DEF Meant, Idle
<1> QED BY <1>1, ReadMoves DEF Ends

LEMMA ReadTo ==
  ASSUME ReadInv, PruneInv', NEW c \in Clients, NEW k,
         k = FoundOwn(c) \/ k = To(c, "take") \/ k = To(c, "purge_load"),
         Goes(c, k), StreamsMove, Rightly(c)
  PROVE  ReadInv' /\ \A d \in Clients : Rightly(d)
<1>1. IsCall(call[c])
  BY DEF ReadInv, PruneInv, StoreInv, CallDecided
<1>2. k.pc \in {"own", "take", "purge_load"}
  BY <1>1 DEF To, FoundOwn, IsCall
<1> QED BY <1>2, ReadGoes

LEMMA ReadRetries ==
  ASSUME ReadInv, PruneInv', NEW c \in Clients, NEW pc \in {"load", "purge_load"},
         Retries(c, pc), StreamsMove, Rightly(c)
  PROVE  ReadInv' /\ \A d \in Clients : Rightly(d)
<1> DEFINE k == [call[c] EXCEPT !.pc = pc, !.tries = @ + 1, !.loaded = <<>>, !.seen = 0]
<1>1. CASE Goes(c, k)
  <2>1. IsCall(call[c])
    BY DEF ReadInv, PruneInv, StoreInv, CallDecided
  <2>2. k.pc = pc
    BY <2>1 DEF IsCall
  <2> HIDE DEF k
  <2> QED BY <1>1, <2>2, ReadGoes
<1>2. CASE Ends(c, Said("gave_up"))
  BY <1>2, ReadEnds
<1> QED BY <1>1, <1>2 DEF Retries

LEMMA ReadAdding ==
  ASSUME ReadInv, PruneInv', NEW c \in Clients, NEW position, Adding(c, position),
         StreamsMove, Rightly(c)
  PROVE  ReadInv' /\ \A d \in Clients : Rightly(d)
<1>1. PICK h : Goes(c, [To(c, "load") EXCEPT !.harp = h, !.probe = position])
  BY DEF Adding
<1> DEFINE k == [To(c, "load") EXCEPT !.harp = h, !.probe = position]
<1>2. IsCall(call[c])
  BY DEF ReadInv, PruneInv, StoreInv, CallDecided
<1>3. k.pc = "load"
  BY <1>2 DEF IsCall, To
<1> HIDE DEF k
<1>4. Goes(c, k)
  BY <1>1 DEF k
<1> QED BY <1>3, <1>4, ReadGoes

\* A step that leaves the streams does nothing to them wrongly.
LEMMA LeftRightly ==
  ASSUME UNCHANGED <<streams, purges>> PROVE StreamsMove /\ \A c \in Clients : Rightly(c)
BY DEF StreamsMove, Rightly

\* A call loads its stream, to decide by it as it is.
LEMMA ReadLoads ==
  ASSUME ReadInv, PruneInv', UNCHANGED <<streams, purges>>, NEW c \in Clients,
         NEW pc \in {"append", "purge"}, Goes(c, Reads(c, pc)),
         pc = "append" => call[c].request.op # "prune" \/ Qualifies(Folded(Held(c))),
         pc = "purge" => Folded(Held(c)).removed
  PROVE  ReadInv' /\ \A d \in Clients : Rightly(d)
<1>0. PICK k : k = Reads(c, pc)
  OBVIOUS
<1>1. StoreInv
  BY DEF ReadInv, PruneInv
<1>2. /\ k.pc = pc /\ k.loaded = Held(c) /\ k.harp = call[c].harp
      /\ k.request = call[c].request /\ k.seen = purges[call[c].harp]
  BY <1>0, <1>1, ReadsFields
<1>3. Stands(k)'
  <2> SUFFICES ASSUME k.harp \in Harps
               PROVE  /\ k.seen \in Nat
                      /\ k.seen <= purges'[k.harp]
                      /\ k.seen = purges'[k.harp] => Since(k.loaded, streams'[k.harp])
    BY DEF Stands
  <2>1. Len(streams[k.harp]) \in Nat /\ purges[k.harp] \in Nat
    BY StreamLengths DEF ReadInv
  <2> QED BY <1>2, <2>1 DEF Since, Held
<1>4. Meant(k)'
  BY <1>2, <1>3 DEF Meant
<1> QED BY <1>0, <1>4, LeftRightly, ReadMoves DEF Goes

LEMMA NextRead == ReadInv /\ [Next]_vars => ReadInv' /\ \A d \in Clients : Rightly(d)
<1> SUFFICES ASSUME ReadInv, [Next]_vars PROVE ReadInv' /\ \A d \in Clients : Rightly(d)
  OBVIOUS
<1>0. PruneInv'
  BY NextPrune DEF ReadInv
<1>c. \A c \in Clients : IsCall(call[c]) /\ Meant(call[c])
  BY DEF ReadInv, PruneInv, StoreInv, CallDecided
<1>1. CASE UNCHANGED vars
  BY <1>0, <1>1, LeftRightly DEF vars, ReadInv, Meant, Stands
<1>2. ASSUME NEW c \in Clients, NEW r \in Sends[c], Begin(c, r)
      PROVE  ReadInv' /\ \A d \in Clients : Rightly(d)
  <2>1. UNCHANGED <<streams, purges>>
    BY <1>2 DEF Begin
  <2>2. PICK k : Goes(c, k) /\ k.pc \in {"list", "load", "look"}
    BY <1>2, Begun
  <2> QED BY <1>0, <2>1, <2>2, LeftRightly, ReadGoes
<1>3. ASSUME NEW c \in Clients, Look(c)
      PROVE  ReadInv' /\ \A d \in Clients : Rightly(d)
  <2>1. StreamsMove /\ Rightly(c) /\ call[c].pc = "look"
    BY <1>3, LeftRightly DEF Look
  <2>2. CASE Goes(c, FoundOwn(c))
    BY <1>0, <2>1, <2>2, ReadTo
  <2>3. ASSUME NEW h, NEW n, Goes(c, [call[c] EXCEPT !.harp = h, !.probe = n])
        PROVE  ReadInv' /\ \A d \in Clients : Rightly(d)
    <3> DEFINE k == [call[c] EXCEPT !.harp = h, !.probe = n]
    <3>1. k.pc = "look"
      BY <1>c, <2>1 DEF IsCall
    <3>2. Goes(c, k)
      BY <2>3
    <3> HIDE DEF k
    <3> QED BY <1>0, <2>1, <3>1, <3>2, ReadGoes
  <2>4. CASE Adding(c, 1)
    BY <1>0, <2>1, <2>4, ReadAdding
  <2> QED BY <1>3, <2>2, <2>3, <2>4 DEF Look
<1>4. ASSUME NEW c \in Clients, ReadOwn(c) \/ Fail(c)
      PROVE  ReadInv' /\ \A d \in Clients : Rightly(d)
  <2>1. StreamsMove /\ Rightly(c)
    BY <1>4, LeftRightly DEF ReadOwn, Fail
  <2> QED BY <1>0, <1>4, <2>1, ReadEnds DEF ReadOwn, Fail
<1>5. ASSUME NEW c \in Clients, Load(c)
      PROVE  ReadInv' /\ \A d \in Clients : Rightly(d)
  <2>1. UNCHANGED <<streams, purges>> /\ call[c].request.op # "prune"
    BY <1>5 DEF Load
  <2>2. StreamsMove /\ Rightly(c)
    BY <2>1, LeftRightly
  <2>3. \/ Goes(c, FoundOwn(c))
        \/ Goes(c, Reads(c, "append"))
        \/ \E said : Ends(c, said)
        \/ Adding(c, call[c].probe + 1)
        \/ Retries(c, "load")
    BY <1>5 DEF Load
  <2>4. CASE Goes(c, FoundOwn(c))
    BY <1>0, <2>2, <2>4, ReadTo
  <2>5. CASE Goes(c, Reads(c, "append"))
    BY <1>0, <2>1, <2>5, ReadLoads
  <2>6. CASE \E said : Ends(c, said)
    BY <1>0, <2>2, <2>6, ReadEnds
  <2>7. CASE Adding(c, call[c].probe + 1)
    BY <1>0, <2>2, <2>7, ReadAdding
  <2>8. CASE Retries(c, "load")
    BY <1>0, <2>2, <2>8, ReadRetries
  <2> QED BY <2>3, <2>4, <2>5, <2>6, <2>7, <2>8
<1>6. ASSUME NEW c \in Clients, LoadRemoval(c)
      PROVE  ReadInv' /\ \A d \in Clients : Rightly(d)
  <2>1. UNCHANGED <<streams, purges>>
    BY <1>6 DEF LoadRemoval
  <2>2. StreamsMove /\ Rightly(c)
    BY <2>1, LeftRightly
  <2>3. \/ Goes(c, To(c, "take")) \/ Goes(c, To(c, "purge_load"))
        \/ Qualifies(Folded(Held(c))) /\ Goes(c, Reads(c, "append"))
        \/ Retries(c, "load")
    BY <1>6 DEF LoadRemoval
  <2>4. CASE Goes(c, To(c, "take")) \/ Goes(c, To(c, "purge_load"))
    BY <1>0, <2>2, <2>4, ReadTo
  <2>5. CASE Qualifies(Folded(Held(c))) /\ Goes(c, Reads(c, "append"))
    BY <1>0, <2>1, <2>5, ReadLoads
  <2>6. CASE Retries(c, "load")
    BY <1>0, <2>2, <2>6, ReadRetries
  <2> QED BY <2>3, <2>4, <2>5, <2>6
<1>7. ASSUME NEW c \in Clients, Commit(c)
      PROVE  ReadInv' /\ \A d \in Clients : Rightly(d)
  <2> DEFINE page == [event |-> Decide(Folded(call[c].loaded), call[c].loaded # <<>>,
                                       CommandOf(c)).event,
                      recorded_at |-> Now, command_id |-> CommandId(c)]
  <2>1. /\ call[c].pc = "append" /\ purges' = purges
        /\ \/ /\ ~HeadMoved(c)
              /\ streams' = [streams EXCEPT ![call[c].harp] = Append(@, page)]
           \/ streams' = streams
        /\ \/ Goes(c, To(c, "purge_load"))
           \/ Ends(c, Answer("task", call[c].harp))
           \/ Retries(c, "load")
    BY <1>7 DEF Commit
  <2> HIDE DEF page
  <2>2. ASSUME NEW h \in Harps, h = call[c].harp, ~HeadMoved(c),
               streams' = [streams EXCEPT ![call[c].harp] = Append(@, page)]
        PROVE  StreamsMove /\ Rightly(c)
    <3>1. \A g \in Harps : streams'[g] = IF g = h THEN Append(streams[h], page)
                                         ELSE streams[g]
      BY <2>2 DEF ReadInv, PruneInv, StoreInv, StreamsWhole
    <3>2. IsStream(streams[h])
      BY DEF ReadInv, PruneInv, StoreInv, StreamsWhole
    <3>3. Len(streams[h]) \in Nat /\ Len(streams'[h]) = Len(streams[h]) + 1
      <4> DEFINE t == Append(streams[h], page)
      <4>1. Len(streams[h]) \in Nat /\ Len(t) = Len(streams[h]) + 1
        BY <3>2, AppendedPage
      <4>2. streams'[h] = t
        BY <3>1
      <4> HIDE DEF t
      <4> QED BY <4>1, <4>2
    <3>4. StreamsMove
      BY <2>1, <3>1, <3>3 DEF StreamsMove
    <3>5. ASSUME call[c].request.op = "prune", ~PurgedSinceSeen(c)
          PROVE  Qualifies(Task(h))
      <4>1. Qualifies(Folded(call[c].loaded)) /\ Stands(call[c])
        BY <1>c, <2>1, <3>5 DEF Meant
      <4>2. purges[h] \in Nat /\ Len(streams[h]) \in Nat
        BY StreamLengths DEF ReadInv
      <4>3. Since(call[c].loaded, streams[h])
        BY <2>2, <3>5, <4>1, <4>2 DEF Stands, PurgedSinceSeen
      <4>4. call[c].loaded = streams[h]
        BY <2>2, <4>3 DEF Since, HeadMoved, Held
      <4> QED BY <4>1, <4>4 DEF Task
    <3>6. Rightly(c)
      BY <2>1, <2>2, <3>5 DEF Rightly
    <3> QED BY <3>4, <3>6
  <2>3. StreamsMove /\ Rightly(c)
    <3>1. CASE streams' = streams
      BY <2>1, <3>1, LeftRightly
    <3>2. CASE call[c].harp \notin Harps
      <4>1. streams' = streams
        BY <2>1, <3>2 DEF ReadInv, PruneInv, StoreInv, StreamsWhole
      <4> QED BY <2>1, <4>1, LeftRightly
    <3> QED BY <2>1, <2>2, <3>1, <3>2
  <2> QED BY <1>0, <2>1, <2>3, ReadTo, ReadEnds, ReadRetries
<1>8. ASSUME NEW c \in Clients, List(c)
      PROVE  ReadInv' /\ \A d \in Clients : Rightly(d)
  <2>1. StreamsMove /\ Rightly(c)
    BY <1>8, LeftRightly DEF List
  <2>2. PICK todo, left, found : Goes(c, [To(c, "take") EXCEPT !.todo = todo,
                                            !.unpurged = left, !.found = found])
    BY <1>8 DEF List
  <2> DEFINE k == [To(c, "take") EXCEPT !.todo = todo, !.unpurged = left, !.found = found]
  <2>3. k.pc = "take"
    BY <1>c DEF IsCall, To
  <2> HIDE DEF k
  <2>4. Goes(c, k)
    BY <2>2 DEF k
  <2> QED BY <1>0, <2>1, <2>3, <2>4, ReadGoes
<1>9. ASSUME NEW c \in Clients, Take(c)
      PROVE  ReadInv' /\ \A d \in Clients : Rightly(d)
  <2>1. StreamsMove /\ Rightly(c)
    BY <1>9, LeftRightly DEF Take
  <2>2. ASSUME NEW h, Goes(c, [To(c, "load") EXCEPT !.harp = h, !.todo = @ \ {h}])
        PROVE  ReadInv' /\ \A d \in Clients : Rightly(d)
    <3> DEFINE k == [To(c, "load") EXCEPT !.harp = h, !.todo = @ \ {h}]
    <3>1. k.pc = "load"
      BY <1>c DEF IsCall, To
    <3>2. Goes(c, k)
      BY <2>2
    <3> HIDE DEF k
    <3> QED BY <1>0, <2>1, <3>1, <3>2, ReadGoes
  <2>3. ASSUME NEW h, Goes(c, [To(c, "purge_load") EXCEPT !.harp = h, !.unpurged = @ \ {h}])
        PROVE  ReadInv' /\ \A d \in Clients : Rightly(d)
    <3> DEFINE k == [To(c, "purge_load") EXCEPT !.harp = h, !.unpurged = @ \ {h}]
    <3>1. k.pc = "purge_load"
      BY <1>c DEF IsCall, To
    <3>2. Goes(c, k)
      BY <2>3
    <3> HIDE DEF k
    <3> QED BY <1>0, <2>1, <3>1, <3>2, ReadGoes
  <2>4. CASE Ends(c, Said("pruned"))
    BY <1>0, <2>1, <2>4, ReadEnds
  <2> QED BY <1>9, <2>2, <2>3, <2>4 DEF Take
<1>10. ASSUME NEW c \in Clients, LoadPurge(c)
       PROVE  ReadInv' /\ \A d \in Clients : Rightly(d)
  <2>1. UNCHANGED <<streams, purges>>
    BY <1>10 DEF LoadPurge
  <2>2. StreamsMove /\ Rightly(c)
    BY <2>1, LeftRightly
  <2>3. CASE Goes(c, To(c, "take"))
    BY <1>0, <2>2, <2>3, ReadTo
  <2>4. CASE Folded(Held(c)).removed /\ Goes(c, Reads(c, "purge"))
    BY <1>0, <2>1, <2>4, ReadLoads
  <2>5. CASE Retries(c, "purge_load")
    BY <1>0, <2>2, <2>5, ReadRetries
  <2> QED BY <1>10, <2>3, <2>4, <2>5 DEF LoadPurge
<1>11. ASSUME NEW c \in Clients, PurgeAt(c)
       PROVE  ReadInv' /\ \A d \in Clients : Rightly(d)
  <2> DEFINE h == call[c].harp
  <2>1. /\ call[c].pc = "purge"
        /\ \/ /\ ~HeadMoved(c) /\ streams' = [streams EXCEPT ![h] = <<>>]
              /\ purges' = [purges EXCEPT ![h] = @ + 1]
           \/ UNCHANGED <<streams, purges>>
        /\ Goes(c, To(c, "take")) \/ Retries(c, "purge_load")
    BY <1>11 DEF PurgeAt
  <2>2. StreamsMove /\ Rightly(c)
    <3>1. CASE UNCHANGED <<streams, purges>>
      BY <3>1, LeftRightly
    <3>2. CASE h \notin Harps
      <4>1. UNCHANGED <<streams, purges>>
        BY <2>1, <3>2 DEF ReadInv, PruneInv, StoreInv, StreamsWhole, TasksHeld
      <4> QED BY <4>1, LeftRightly
    <3>3. CASE /\ h \in Harps /\ ~HeadMoved(c) /\ streams' = [streams EXCEPT ![h] = <<>>]
               /\ purges' = [purges EXCEPT ![h] = @ + 1]
      <4>1. \A g \in Harps : purges[g] \in Nat /\ Len(streams[g]) \in Nat
        BY StreamLengths DEF ReadInv
      <4>2. StreamsMove
        BY <3>3, <4>1 DEF StreamsMove, ReadInv, PruneInv, StoreInv, StreamsWhole, TasksHeld
      <4>3. ASSUME ~PurgedSinceSeen(c) PROVE Task(h).removed
        <5>1. Folded(call[c].loaded).removed /\ Stands(call[c])
          BY <1>c, <2>1 DEF Meant
        <5>2. Since(call[c].loaded, streams[h])
          BY <3>3, <4>1, <4>3, <5>1 DEF Stands, PurgedSinceSeen
        <5>3. call[c].loaded = streams[h]
          BY <3>3, <5>2 DEF Since, HeadMoved, Held
        <5> QED BY <5>1, <5>3 DEF Task
      <4> QED BY <2>1, <4>2, <4>3 DEF Rightly
    <3> QED BY <2>1, <3>1, <3>2, <3>3
  <2> QED BY <1>0, <2>1, <2>2, ReadTo, ReadRetries
<1> QED
  BY <1>1, <1>2, <1>3, <1>4, <1>5, <1>6, <1>7, <1>8, <1>9, <1>10, <1>11 DEF Next, Step

LEMMA InitRead == Init => ReadInv
<1> SUFFICES ASSUME Init PROVE ReadInv
  OBVIOUS
<1>1. \A c \in Clients : Meant(call[c])
  BY DEF Init, Idle, Meant
<1> QED BY <1>1, InitPrune DEF ReadInv

\* However many prunes race, each other and anyone adding and changing, a prune
\* removes only a task that qualifies as it is removed and purges only one that
\* is removed, unless what it read was purged since (prune.rs, Removal's shape
\* and purge_removed; the kernel's head check).
THEOREM PrunesActAsRead == Spec => PrunesAsRead
<1>1. ReadInv /\ [Next]_vars =>
        [\A c \in Clients :
           LET h == call[c].harp IN
           call'[c] # call[c] /\ call[c].request.op = "prune" /\ streams' # streams
             => \/ PurgedSinceSeen(c)
                \/ call[c].pc = "append" /\ Qualifies(Task(h))
                \/ call[c].pc = "purge" /\ Task(h).removed]_vars
  BY NextRead DEF Rightly
<1> QED BY <1>1, InitRead, NextRead, PTL DEF Spec, PrunesAsRead

------------------------------------------------------------------------------
(* One task per request, beside prunes.                                     *)

\* c is adding under the key.  A request is sent again once its last attempt
\* was answered, or died: no two calls add under a key at once.
AddsUnder(c, key) ==
  call[c].pc # "idle" /\ call[c].request.op = "add" /\ call[c].request.key = key
OneAttemptAtATime ==
  \A key \in Keys : \A c, d \in Clients : AddsUnder(c, key) /\ AddsUnder(d, key) => c = d

\* A keyed add is at its probe's place: looking, it passed places none of which
\* holds its own add; adding, nowhere else holds it.
AddPlaced(k) ==
  /\ k.pc = "look" => k.request.op = "add" /\ k.request.key # NoKey
  /\ k.pc # "idle" /\ k.request.op = "add" /\ k.request.key # NoKey =>
       LET key == k.request.key IN
       /\ k.pc \in {"look", "own", "load", "append"}
       /\ k.pc # "own" => /\ k.probe \in 1..Len(ProbeOrder[key])
                          /\ k.harp = ProbeOrder[key][k.probe]
       /\ k.pc = "look" => \A m \in 1..(k.probe - 1) : ProbeOrder[key][m] \notin AddedAt(key)
       /\ k.pc \in {"load", "append"} => AddedAt(key) \subseteq {k.harp}

AddsAtPlaces ==
  \A key \in Keys : \A h \in AddedAt(key) :
    \E n \in 1..Len(ProbeOrder[key]) : h = ProbeOrder[key][n]

OneTaskInv ==
  /\ StoreInv
  /\ OneTaskPerRequest
  /\ AddsAtPlaces
  /\ \A c \in Clients : AddPlaced(call[c])

FewerAdds == \A key \in Keys : AddedAt(key)' \subseteq AddedAt(key)

LEMMA KeyOf ==
  ASSUME NEW k, CallDecided(k), k.pc # "idle", k.request.op = "add", k.request.key # NoKey
  PROVE  k.request.key \in Keys
BY DEF CallDecided, Requests, Prunes, Adds, Changes

LEMMA PlacedStays ==
  ASSUME NEW k, CallDecided(k), AddPlaced(k),
         k.pc # "idle" /\ k.request.op = "add" /\ k.request.key # NoKey =>
           AddedAt(k.request.key)' \subseteq AddedAt(k.request.key)
  PROVE  AddPlaced(k)'
BY DEF AddPlaced

\* A call that goes on, or ends, where no add has come to a stream.
LEMMA PlacedMoves ==
  ASSUME OneTaskInv, StoreInv', FewerAdds, NEW c \in Clients, NEW k,
         call' = [call EXCEPT ![c] = k], AddPlaced(k)'
  PROVE  OneTaskInv'
<1>1. \A d \in Clients : call'[d] = IF d = c THEN k ELSE call[d]
  BY DEF OneTaskInv, StoreInv
<1>2. OneTaskPerRequest' /\ AddsAtPlaces'
  BY DEF OneTaskInv, OneTaskPerRequest, AddsAtPlaces, FewerAdds
<1>3. ASSUME NEW d \in Clients, d # c PROVE AddPlaced(call[d])'
  <2>1. PICK e : e = call[d]
    OBVIOUS
  <2>2. call'[d] = e /\ CallDecided(e) /\ AddPlaced(e)
    BY <1>1, <1>3, <2>1 DEF OneTaskInv, StoreInv
  <2>3. e.pc # "idle" /\ e.request.op = "add" /\ e.request.key # NoKey =>
          AddedAt(e.request.key)' \subseteq AddedAt(e.request.key)
    BY <2>2, KeyOf DEF FewerAdds
  <2>4. AddPlaced(e)'
    BY <2>2, <2>3, PlacedStays
  <2> QED BY <2>2, <2>4
<1>4. \A d \in Clients : AddPlaced(call[d])'
  BY <1>1, <1>3
<1> QED BY <1>2, <1>4 DEF OneTaskInv

LEMMA PlacedEnds ==
  ASSUME OneTaskInv, StoreInv', FewerAdds, NEW c \in Clients, NEW said, Ends(c, said)
  PROVE  OneTaskInv'
<1>1. AddPlaced(Idle)'
  BY DEF AddPlaced, Idle
<1> QED BY <1>1, PlacedMoves DEF Ends

\* A call that is not a keyed add is nowhere in particular.
LEMMA NoPlace ==
  ASSUME NEW k, k.pc # "look", ~(k.request.op = "add" /\ k.request.key # NoKey)
  PROVE  AddPlaced(k)'
BY DEF AddPlaced

\* A keyed add tries again from its load: what it appended is all there is.
LEMMA PlacedRetries ==
  ASSUME OneTaskInv, StoreInv', FewerAdds, NEW c \in Clients,
         call[c].pc # "idle", NEW pc \in {"load", "purge_load"}, Retries(c, pc),
         call[c].request.op = "add" /\ call[c].request.key # NoKey =>
           pc = "load" /\ call[c].pc \in {"load", "append"}
  PROVE  OneTaskInv'
<1>1. PICK k : k = [call[c] EXCEPT !.pc = pc, !.tries = @ + 1, !.loaded = <<>>, !.seen = 0]
  OBVIOUS
<1>2. CallDecided(call[c]) /\ IsCall(call[c]) /\ AddPlaced(call[c])
  BY DEF OneTaskInv, StoreInv, CallDecided
<1>3. /\ k.pc = pc /\ k.request = call[c].request /\ k.harp = call[c].harp
      /\ k.probe = call[c].probe
  BY <1>1, <1>2 DEF IsCall
<1>4. AddPlaced(k)'
  <2>1. CASE call[c].request.op = "add" /\ call[c].request.key # NoKey
    <3>1. PICK key \in Keys : key = k.request.key
      BY <1>2, <1>3, <2>1, KeyOf
    <3>2. AddedAt(key)' \subseteq AddedAt(key)
      BY DEF FewerAdds
    <3>3. /\ k.probe \in 1..Len(ProbeOrder[key]) /\ k.harp = ProbeOrder[key][k.probe]
          /\ AddedAt(key) \subseteq {k.harp} /\ k.pc = "load"
      BY <1>2, <1>3, <2>1, <3>1 DEF AddPlaced
    <3> QED BY <3>1, <3>2, <3>3 DEF AddPlaced
  <2>2. CASE ~(call[c].request.op = "add" /\ call[c].request.key # NoKey)
    BY <1>3, <2>2, NoPlace
  <2> QED BY <2>1, <2>2
<1>5. CASE Goes(c, k)
  BY <1>4, <1>5, PlacedMoves DEF Goes
<1>6. CASE Ends(c, Said("gave_up"))
  BY <1>6, PlacedEnds
<1> QED BY <1>1, <1>5, <1>6 DEF Retries

\* An add goes on to a position, its own add nowhere.
LEMMA PlacedAdding ==
  ASSUME OneTaskInv, StoreInv', UNCHANGED streams, NEW c \in Clients, call[c].pc # "idle",
         NEW n, Adding(c, n),
         call[c].request.op = "add" /\ call[c].request.key # NoKey =>
           n \in 1..Len(ProbeOrder[call[c].request.key]) /\ AddedAt(call[c].request.key) = {}
  PROVE  OneTaskInv'
<1> DEFINE r == call[c].request
<1>1. PICK h \in Places(r, n) : Goes(c, [To(c, "load") EXCEPT !.harp = h, !.probe = n])
  BY DEF Adding
<1>2. PICK k : k = [To(c, "load") EXCEPT !.harp = h, !.probe = n]
  OBVIOUS
<1>3. IsCall(call[c])
  BY DEF OneTaskInv, StoreInv, CallDecided
<1>4. k.pc = "load" /\ k.request = r /\ k.harp = h /\ k.probe = n
  BY <1>2, <1>3 DEF IsCall, To
<1>5. r.key # NoKey => h = ProbeOrder[r.key][n]
  BY <1>1 DEF Places
<1>6. \A key : AddedAt(key)' = AddedAt(key)
  BY DEF AddedAt
<1>7. AddPlaced(k)'
  BY <1>4, <1>5, <1>6 DEF AddPlaced
<1> QED BY <1>1, <1>2, <1>6, <1>7, PlacedMoves DEF Goes, FewerAdds

LEMMA InitOneTask == Init => OneTaskInv
<1> SUFFICES ASSUME Init PROVE OneTaskInv
  OBVIOUS
<1>1. \A key \in Keys : AddedAt(key) = {}
  <2> SUFFICES ASSUME NEW key \in Keys, NEW h \in Harps, Caused(streams[h], AddId(key))
               PROVE  FALSE
    BY DEF AddedAt, AddId
  <2>2. streams[h] \in {<<>>} \cup OldStreams(h)
    BY DEF Init
  <2>3. CASE streams[h] = <<>>
    BY <2>3, NoStream DEF Caused
  <2>4. CASE streams[h] \in OldStreams(h)
    <3>1. PICK a \in OldTasks :
            streams[h] = <<[event |-> TaskAddedOf([a EXCEPT !.harp_id = h]),
                            recorded_at |-> Old, command_id |-> OldId]>>
      BY <2>4 DEF OldStreams
    <3> DEFINE page == [event |-> TaskAddedOf([a EXCEPT !.harp_id = h]),
                        recorded_at |-> Old, command_id |-> OldId]
    <3>2. page.command_id = OldId
      OBVIOUS
    <3> HIDE DEF page
    <3>3. streams[h] = <<page>>
      BY <3>1 DEF page
    <3>4. OldId.op = "fresh" /\ AddId(key).op = "add"
      BY DEF OldId, FreshId, AddId, RequestId
    <3> QED BY <3>2, <3>3, <3>4, OnePage DEF Caused
  <2> QED BY <2>2, <2>3, <2>4
<1>2. OneTaskPerRequest /\ AddsAtPlaces
  BY <1>1 DEF OneTaskPerRequest, AddsAtPlaces
<1>3. \A c \in Clients : AddPlaced(call[c])
  BY DEF Init, AddPlaced, Idle
<1> QED BY <1>2, <1>3, InitWhole DEF OneTaskInv

\* A commit adds, if at all, at the one place left for its key.
LEMMA CommitPlaced ==
  ASSUME OneTaskInv, OneAttemptAtATime, NEW c \in Clients, Commit(c)
  PROVE  OneTaskInv'
<1> DEFINE r == call[c].request
           h == call[c].harp
<1>0. StoreInv'
  BY CommitWhole DEF OneTaskInv
<1>1. PICK page :
        /\ page.command_id = CommandId(c)
        /\ streams' = [streams EXCEPT ![h] = Append(@, page)] \/ streams' = streams
        /\ call[c].pc = "append"
        /\ \/ r.op = "prune" /\ Goes(c, To(c, "purge_load"))
           \/ Ends(c, Answer("task", h))
           \/ Retries(c, "load")
  BY DEF Commit
<1>2. CallDecided(call[c]) /\ IsCall(call[c]) /\ AddPlaced(call[c])
  BY DEF OneTaskInv, StoreInv, CallDecided
<1>3. ASSUME NEW key \in Keys, NEW g \in AddedAt(key)', g \notin AddedAt(key)
      PROVE  AddsUnder(c, key) /\ g = h
  <2>1. g \in Harps /\ ~Caused(streams[g], AddId(key)) /\ Caused(streams'[g], AddId(key))
    BY <1>3 DEF AddedAt, AddId
  <2>2. streams' = [streams EXCEPT ![h] = Append(@, page)] /\ streams'[g] # streams[g]
    BY <1>1, <2>1
  <2>3. g = h /\ streams'[g] = Append(streams[g], page) /\ IsStream(streams[g])
    BY <2>1, <2>2 DEF OneTaskInv, StoreInv, StreamsWhole
  <2>4. CommandId(c) = AddId(key)
    <3> DEFINE s == streams[g]
               t == Append(s, page)
    <3>1. /\ Len(s) \in Nat /\ DOMAIN s = 1..Len(s) /\ DOMAIN t = 1..(Len(s) + 1)
          /\ \A i \in 1..Len(s) : t[i] = s[i]
          /\ t[Len(s) + 1] = page
      BY <2>3, AppendedPage
    <3>2. Caused(t, AddId(key)) /\ ~Caused(s, AddId(key))
      BY <2>1, <2>3
    <3> HIDE DEF t
    <3>3. PICK i \in DOMAIN t : t[i].command_id = AddId(key)
      BY <3>2 DEF Caused
    <3>4. i \notin 1..Len(s)
      BY <3>1, <3>2, <3>3 DEF Caused
    <3>5. i = Len(s) + 1
      BY <3>1, <3>3, <3>4
    <3> QED BY <1>1, <3>1, <3>3, <3>5
  <2>5. r.op = "add" /\ r.key = key
    BY <2>4, AddIdOf
  <2> QED BY <1>1, <2>3, <2>5 DEF AddsUnder
<1>4. CASE \A key \in Keys : AddedAt(key)' \subseteq AddedAt(key)
  <2>1. FewerAdds
    BY <1>4 DEF FewerAdds
  <2>2. CASE r.op = "prune" /\ Goes(c, To(c, "purge_load"))
    <3>1. PICK k : k = To(c, "purge_load")
      OBVIOUS
    <3>2. k.pc = "purge_load" /\ k.request = r
      BY <1>2, <3>1 DEF IsCall, To
    <3>3. AddPlaced(k)'
      BY <2>2, <3>2, NoPlace
    <3> QED BY <1>0, <2>1, <2>2, <3>1, <3>3, PlacedMoves DEF Goes
  <2>3. CASE Ends(c, Answer("task", h))
    BY <1>0, <2>1, <2>3, PlacedEnds
  <2>4. CASE Retries(c, "load")
    BY <1>0, <1>1, <2>1, <2>4, PlacedRetries
  <2> QED BY <1>1, <2>2, <2>3, <2>4
<1>5. ASSUME NEW key \in Keys, NEW g \in AddedAt(key)', g \notin AddedAt(key)
      PROVE  OneTaskInv'
  <2>1. AddsUnder(c, key) /\ g = h
    BY <1>3, <1>5
  <2>2. /\ r.op = "add" /\ r.key = key /\ r.key # NoKey
        /\ \A other \in Keys : other # key => AddedAt(other)' \subseteq AddedAt(other)
    BY <1>3, <2>1, RequestsAssumption DEF AddsUnder
  <2>3. /\ AddedAt(key) \subseteq {h}
        /\ call[c].probe \in 1..Len(ProbeOrder[key]) /\ h = ProbeOrder[key][call[c].probe]
    BY <1>1, <1>2, <2>2 DEF AddPlaced
  <2>4. AddedAt(key)' \subseteq {h}
    BY <1>3, <2>3
  <2>5. OneTaskPerRequest'
    <3> SUFFICES ASSUME NEW other \in Keys, NEW a \in AddedAt(other)', NEW b \in AddedAt(other)'
                 PROVE  a = b
      BY DEF OneTaskPerRequest
    <3>1. CASE other = key
      BY <2>4, <3>1
    <3>2. CASE other # key
      BY <2>2, <3>2 DEF OneTaskInv, OneTaskPerRequest
    <3> QED BY <3>1, <3>2
  <2>6. AddsAtPlaces'
    <3> SUFFICES ASSUME NEW other \in Keys, NEW a \in AddedAt(other)'
                 PROVE  \E n \in 1..Len(ProbeOrder[other]) : a = ProbeOrder[other][n]
      BY DEF AddsAtPlaces
    <3>1. CASE other = key
      BY <2>3, <2>4, <3>1
    <3>2. CASE other # key
      BY <2>2, <3>2 DEF OneTaskInv, AddsAtPlaces
    <3> QED BY <3>1, <3>2
  <2>7. PICK k : call' = [call EXCEPT ![c] = k] /\ AddPlaced(k)'
    <3>1. CASE Ends(c, Answer("task", h)) \/ Ends(c, Said("gave_up"))
      <4>1. AddPlaced(Idle)'
        BY DEF AddPlaced, Idle
      <4> QED BY <3>1, <4>1 DEF Ends
    <3>2. CASE Goes(c, [call[c] EXCEPT !.pc = "load", !.tries = @ + 1, !.loaded = <<>>,
                                       !.seen = 0])
      <4>1. PICK k : k = [call[c] EXCEPT !.pc = "load", !.tries = @ + 1, !.loaded = <<>>,
                                         !.seen = 0]
        OBVIOUS
      <4>2. k.pc = "load" /\ k.request = r /\ k.harp = h /\ k.probe = call[c].probe
        BY <1>2, <4>1 DEF IsCall
      <4>3. AddPlaced(k)'
        BY <2>2, <2>3, <2>4, <4>2 DEF AddPlaced
      <4> QED BY <3>2, <4>1, <4>3 DEF Goes
    <3> QED BY <1>1, <2>2, <3>1, <3>2 DEF Retries
  <2>8. \A d \in Clients : call'[d] = IF d = c THEN k ELSE call[d]
    BY <2>7 DEF OneTaskInv, StoreInv
  <2>9. ASSUME NEW d \in Clients, d # c PROVE AddPlaced(call[d])'
    <3>1. PICK e : e = call[d]
      OBVIOUS
    <3>2. call'[d] = e /\ CallDecided(e) /\ AddPlaced(e)
      BY <2>8, <2>9, <3>1 DEF OneTaskInv, StoreInv
    <3>3. ~AddsUnder(d, key)
      BY <2>1, <2>9 DEF OneAttemptAtATime
    <3>4. e.pc # "idle" /\ e.request.op = "add" /\ e.request.key # NoKey =>
            AddedAt(e.request.key)' \subseteq AddedAt(e.request.key)
      BY <2>2, <3>1, <3>2, <3>3, KeyOf DEF AddsUnder
    <3>5. AddPlaced(e)'
      BY <3>2, <3>4, PlacedStays
    <3> QED BY <3>2, <3>5
  <2>10. \A d \in Clients : AddPlaced(call[d])'
    BY <2>7, <2>8, <2>9
  <2> QED BY <1>0, <2>5, <2>6, <2>10 DEF OneTaskInv
<1> QED BY <1>4, <1>5

LEMMA LookPlaced ==
  ASSUME OneTaskInv, NEW c \in Clients, Look(c)
  PROVE  OneTaskInv'
<1> DEFINE r == call[c].request
           n == call[c].probe + 1
<1>0. StoreInv' /\ UNCHANGED streams /\ call[c].pc = "look"
  BY ReadsWhole DEF OneTaskInv, Look
<1>1. StoreInv /\ CallDecided(call[c]) /\ IsCall(call[c]) /\ AddPlaced(call[c])
  BY DEF OneTaskInv, StoreInv, CallDecided
<1>2. /\ r.op = "add" /\ r.key # NoKey /\ r.key \in Keys
      /\ call[c].probe \in 1..Len(ProbeOrder[r.key])
      /\ call[c].harp = ProbeOrder[r.key][call[c].probe]
      /\ \A m \in 1..(call[c].probe - 1) : ProbeOrder[r.key][m] \notin AddedAt(r.key)
  BY <1>0, <1>1, KeyOf DEF AddPlaced
<1>3. (\A key : AddedAt(key)' = AddedAt(key)) /\ FewerAdds
  BY <1>0 DEF AddedAt, FewerAdds
<1>4. CASE Goes(c, FoundOwn(c))
  <2>1. PICK k : k = FoundOwn(c)
    OBVIOUS
  <2>2. k.pc = "own" /\ k.request = r
    BY <1>1, <2>1, FoundFields
  <2>3. AddPlaced(k)'
    BY <2>2 DEF AddPlaced
  <2> QED BY <1>0, <1>3, <1>4, <2>1, <2>3, PlacedMoves DEF Goes
<1>5. ASSUME ~Caused(Held(c), CommandId(c))
      PROVE  \A m \in 1..call[c].probe : ProbeOrder[r.key][m] \notin AddedAt(r.key)
  <2>1. CommandId(c) = AddId(r.key)
    BY <1>2 DEF CommandId, AddId
  <2>2. call[c].harp \notin AddedAt(r.key)
    BY <1>5, <2>1 DEF AddedAt, AddId, Held
  <2>3. \A m \in 1..call[c].probe : m \in 1..(call[c].probe - 1) \/ m = call[c].probe
    BY <1>2, KeyPlaces
  <2> QED BY <1>2, <2>2, <2>3
<1>6. CASE /\ ~Caused(Held(c), CommandId(c)) /\ n <= Positions(r)
           /\ Goes(c, [call[c] EXCEPT !.harp = ProbeOrder[r.key][n], !.probe = n])
  <2>1. PICK k : k = [call[c] EXCEPT !.harp = ProbeOrder[r.key][n], !.probe = n]
    OBVIOUS
  <2>2. /\ k.pc = "look" /\ k.request = r /\ k.harp = ProbeOrder[r.key][n]
        /\ k.probe = n
    BY <1>0, <1>1, <2>1 DEF IsCall
  <2>3. n \in 1..Len(ProbeOrder[r.key]) /\ n - 1 = call[c].probe
    BY <1>2, <1>6, KeyPlaces DEF Positions
  <2>4. AddPlaced(k)'
    BY <1>2, <1>3, <1>5, <1>6, <2>2, <2>3 DEF AddPlaced
  <2> QED BY <1>0, <1>3, <1>6, <2>1, <2>4, PlacedMoves DEF Goes
<1>7. CASE ~Caused(Held(c), CommandId(c)) /\ n > Positions(r) /\ Adding(c, 1)
  <2>1. Positions(r) = Len(ProbeOrder[r.key]) /\ Len(ProbeOrder[r.key]) \in Nat
    BY <1>2, KeyPlaces DEF Positions
  <2>2. \A m \in 1..Len(ProbeOrder[r.key]) : ProbeOrder[r.key][m] \notin AddedAt(r.key)
    BY <1>2, <1>5, <1>7, <2>1
  <2>3. AddedAt(r.key) = {}
    BY <1>2, <2>2 DEF OneTaskInv, AddsAtPlaces
  <2>4. 1 \in 1..Len(ProbeOrder[r.key])
    BY <1>2, KeyPlaces
  <2> QED BY <1>0, <1>7, <2>3, <2>4, PlacedAdding
<1> QED BY <1>4, <1>6, <1>7 DEF Look

LEMMA LoadPlaced ==
  ASSUME OneTaskInv, NEW c \in Clients, Load(c)
  PROVE  OneTaskInv'
<1> DEFINE r == call[c].request
           n == call[c].probe + 1
<1>0. StoreInv' /\ UNCHANGED streams /\ call[c].pc = "load"
  BY LoadWhole DEF OneTaskInv, Load
<1>1. StoreInv /\ CallDecided(call[c]) /\ IsCall(call[c]) /\ AddPlaced(call[c])
  BY DEF OneTaskInv, StoreInv, CallDecided
<1>2. ASSUME r.op = "add", r.key # NoKey
      PROVE  /\ r.key \in Keys /\ CommandId(c) = AddId(r.key)
             /\ call[c].probe \in 1..Len(ProbeOrder[r.key])
             /\ call[c].harp = ProbeOrder[r.key][call[c].probe]
             /\ AddedAt(r.key) \subseteq {call[c].harp}
  BY <1>0, <1>1, <1>2, KeyOf DEF AddPlaced, CommandId, AddId
<1>3. (\A key : AddedAt(key)' = AddedAt(key)) /\ FewerAdds
  BY <1>0 DEF AddedAt, FewerAdds
<1>4. CASE Goes(c, FoundOwn(c))
  <2>1. PICK k : k = FoundOwn(c)
    OBVIOUS
  <2>2. k.pc = "own" /\ k.request = r
    BY <1>1, <2>1, FoundFields
  <2>3. AddPlaced(k)'
    BY <2>2 DEF AddPlaced
  <2> QED BY <1>0, <1>3, <1>4, <2>1, <2>3, PlacedMoves DEF Goes
<1>5. CASE Goes(c, Reads(c, "append"))
  <2>1. PICK k : k = Reads(c, "append")
    OBVIOUS
  <2>2. /\ k.pc = "append" /\ k.request = r /\ k.harp = call[c].harp
        /\ k.probe = call[c].probe
    BY <1>1, <2>1, ReadsFields
  <2>3. AddPlaced(k)'
    BY <1>2, <1>3, <2>2 DEF AddPlaced
  <2> QED BY <1>0, <1>3, <1>5, <2>1, <2>3, PlacedMoves DEF Goes
<1>6. CASE \E said : Ends(c, said)
  BY <1>0, <1>3, <1>6, PlacedEnds
<1>7. CASE /\ ~Caused(Held(c), CommandId(c)) /\ call[c].probe < Positions(r)
           /\ Adding(c, n)
  <2>1. ASSUME r.op = "add", r.key # NoKey
        PROVE  n \in 1..Len(ProbeOrder[r.key]) /\ AddedAt(r.key) = {}
    <3>1. call[c].harp \notin AddedAt(r.key)
      BY <1>2, <1>7, <2>1 DEF AddedAt, AddId, Held
    <3>2. n \in 1..Len(ProbeOrder[r.key])
      BY <1>2, <1>7, <2>1, KeyPlaces DEF Positions
    <3> QED BY <1>2, <2>1, <3>1, <3>2
  <2> QED BY <1>0, <1>7, <2>1, PlacedAdding
<1>8. CASE Retries(c, "load")
  BY <1>0, <1>3, <1>8, PlacedRetries
<1>9. \/ Goes(c, FoundOwn(c))
      \/ Goes(c, Reads(c, "append"))
      \/ \E said : Ends(c, said)
      \/ ~Caused(Held(c), CommandId(c)) /\ call[c].probe < Positions(r) /\ Adding(c, n)
      \/ Retries(c, "load")
  BY DEF Load
<1> QED BY <1>4, <1>5, <1>6, <1>7, <1>8, <1>9

\* What a prune does of its own, none of it at an add.
LEMMA PrunePlaced ==
  ASSUME OneTaskInv, StoreInv', NEW c \in Clients,
         LoadRemoval(c) \/ List(c) \/ Take(c) \/ LoadPurge(c) \/ PurgeAt(c)
  PROVE  OneTaskInv'
<1>1. CallDecided(call[c]) /\ IsCall(call[c]) /\ AddPlaced(call[c])
  BY DEF OneTaskInv, StoreInv, CallDecided
<1>2. call[c].pc # "idle" /\ ~(call[c].request.op = "add" /\ call[c].request.key # NoKey)
  BY <1>1 DEF AddPlaced, LoadRemoval, List, Take, LoadPurge, PurgeAt
<1>3. FewerAdds
  <2>1. CASE streams' = streams
    BY <2>1 DEF FewerAdds, AddedAt
  <2>2. CASE streams' = [streams EXCEPT ![call[c].harp] = <<>>]
    <3>1. \A h \in Harps : streams'[h] = streams[h] \/ streams'[h] = <<>>
      BY <2>2 DEF OneTaskInv, StoreInv, StreamsWhole
    <3>2. \A id : ~Caused(<<>>, id)
      BY NoStream DEF Caused
    <3> QED BY <3>1, <3>2 DEF FewerAdds, AddedAt
  <2> QED BY <2>1, <2>2 DEF LoadRemoval, List, Take, LoadPurge, PurgeAt
<1>4. ASSUME NEW k, Goes(c, k), k.pc # "look", k.request = call[c].request
      PROVE  OneTaskInv'
  <2>1. AddPlaced(k)'
    BY <1>2, <1>4, NoPlace
  <2> QED BY <1>3, <1>4, <2>1, PlacedMoves DEF Goes
<1>5. ASSUME NEW pc \in {"take", "purge_load"}, Goes(c, To(c, pc))
      PROVE  OneTaskInv'
  <2>1. PICK k : k = To(c, pc)
    OBVIOUS
  <2>2. k.pc = pc /\ k.request = call[c].request
    BY <1>1, <2>1 DEF IsCall, To
  <2> QED BY <1>4, <1>5, <2>1, <2>2
<1>6. ASSUME NEW pc \in {"append", "purge"}, Goes(c, Reads(c, pc))
      PROVE  OneTaskInv'
  <2>1. PICK k : k = Reads(c, pc)
    OBVIOUS
  <2>2. k.pc = pc /\ k.request = call[c].request
    BY <2>1, ReadsFields DEF OneTaskInv
  <2> QED BY <1>4, <1>6, <2>1, <2>2
<1>7. ASSUME NEW pc \in {"load", "purge_load"}, Retries(c, pc)
      PROVE  OneTaskInv'
  BY <1>2, <1>3, <1>7, PlacedRetries
<1>8. CASE LoadRemoval(c)
  BY <1>5, <1>6, <1>7, <1>8 DEF LoadRemoval
<1>9. CASE List(c)
  <2>1. PICK todo, left, found : Goes(c, [To(c, "take") EXCEPT !.todo = todo,
                                            !.unpurged = left, !.found = found])
    BY <1>9 DEF List
  <2>2. PICK k : k = [To(c, "take") EXCEPT !.todo = todo, !.unpurged = left, !.found = found]
    OBVIOUS
  <2>3. k.pc = "take" /\ k.request = call[c].request
    BY <1>1, <2>2 DEF IsCall, To
  <2> QED BY <1>4, <2>1, <2>2, <2>3
<1>10. CASE Take(c)
  <2>1. ASSUME NEW h, Goes(c, [To(c, "load") EXCEPT !.harp = h, !.todo = @ \ {h}])
        PROVE  OneTaskInv'
    <3>1. PICK k : k = [To(c, "load") EXCEPT !.harp = h, !.todo = @ \ {h}]
      OBVIOUS
    <3>2. k.pc = "load" /\ k.request = call[c].request
      BY <1>1, <3>1 DEF IsCall, To
    <3> QED BY <1>4, <2>1, <3>1, <3>2
  <2>2. ASSUME NEW h, Goes(c, [To(c, "purge_load") EXCEPT !.harp = h, !.unpurged = @ \ {h}])
        PROVE  OneTaskInv'
    <3>1. PICK k : k = [To(c, "purge_load") EXCEPT !.harp = h, !.unpurged = @ \ {h}]
      OBVIOUS
    <3>2. k.pc = "purge_load" /\ k.request = call[c].request
      BY <1>1, <3>1 DEF IsCall, To
    <3> QED BY <1>4, <2>2, <3>1, <3>2
  <2>3. CASE Ends(c, Said("pruned"))
    BY <1>3, <2>3, PlacedEnds
  <2> QED BY <1>10, <2>1, <2>2, <2>3 DEF Take
<1>11. CASE LoadPurge(c)
  BY <1>5, <1>6, <1>7, <1>11 DEF LoadPurge
<1>12. CASE PurgeAt(c)
  BY <1>5, <1>7, <1>12 DEF PurgeAt
<1> QED BY <1>8, <1>9, <1>10, <1>11, <1>12

LEMMA NextOneTask == OneTaskInv /\ OneAttemptAtATime /\ [Next]_vars => OneTaskInv'
<1> SUFFICES ASSUME OneTaskInv, OneAttemptAtATime, [Next]_vars PROVE OneTaskInv'
  OBVIOUS
<1>0. StoreInv'
  BY NextWhole DEF OneTaskInv
<1>1. ASSUME NEW c \in Clients, NEW r \in Sends[c], Begin(c, r) PROVE OneTaskInv'
  <2>1. PICK k : /\ Goes(c, k) /\ k.request = r
                 /\ k.pc \in {"list", "load", "look"}
                 /\ k.pc = "look" => r.op = "add" /\ r.key # NoKey
                 /\ r.op = "add" => k.probe = 1 /\ k.harp \in Places(r, 1)
                 /\ r.op = "add" /\ r.key # NoKey => k.pc = "look"
    BY <1>1, Begun
  <2>2. FewerAdds
    BY <1>1 DEF Begin, FewerAdds, AddedAt
  <2>3. r.key # NoKey /\ r.op = "add" => r.key \in Keys
    BY RequestsAssumption DEF Requests, Prunes, Adds, Changes
  <2>4. r.key # NoKey /\ r.op = "add" =>
          k.probe \in 1..Len(ProbeOrder[r.key]) /\ k.harp = ProbeOrder[r.key][k.probe]
    BY <2>1, <2>3, KeyPlaces DEF Places
  <2>5. AddPlaced(k)'
    BY <2>1, <2>4 DEF AddPlaced
  <2> QED BY <1>0, <2>1, <2>2, <2>5, PlacedMoves DEF Goes
<1>2. ASSUME NEW c \in Clients, ReadOwn(c) \/ Fail(c) PROVE OneTaskInv'
  <2>1. FewerAdds /\ \E said : Ends(c, said)
    BY <1>2 DEF ReadOwn, Fail, FewerAdds, AddedAt
  <2> QED BY <1>0, <2>1, PlacedEnds
<1>3. ASSUME NEW c \in Clients, Step(c) \/ Fail(c) PROVE OneTaskInv'
  BY <1>0, <1>2, <1>3, LookPlaced, LoadPlaced, CommitPlaced, PrunePlaced DEF Step
<1>4. CASE UNCHANGED vars
  BY <1>0, <1>4 DEF vars, OneTaskInv, OneTaskPerRequest, AddsAtPlaces, AddPlaced, AddedAt
<1> QED BY <1>1, <1>3, <1>4 DEF Next

\* However many prunes free its harps meanwhile, a request adds one task at most,
\* as often as it is sent again, as long as no two of its attempts run at once
\* (add.rs, own_add).  Two at once, beside a prune, do add two: one looks past a
\* harp the prune then frees.
THEOREM OneTaskEver == Spec /\ []OneAttemptAtATime => []OneTaskPerRequest
<1>1. OneTaskInv => OneTaskPerRequest
  BY DEF OneTaskInv
<1> QED BY <1>1, InitOneTask, NextOneTask, PTL DEF Spec

------------------------------------------------------------------------------
(* The store's types, and its tasks whole.  A page decided on one stream    *)
(* may come to be appended to another of its length, where prunes race: it  *)
(* is the event's being whole, not the task it was decided on, that leaves  *)
(* the stream's task whole.                                                 *)

WholeTask(task) == task \in TaskStates /\ DeferralWhole(task) /\ task.harp_id # Empty
TypedStream(s) == s \in Seq(Pages) /\ (s # <<>> => WholeTask(Folded(s)))

\* An event of its type; one that sets the status, whole.
WholeEvent(e) ==
  \/ /\ e \in TaskAddedEvents \cup StatusChangedEvents
     /\ (e.trigger # Empty) <=> (e.status = Defers)
     /\ (e.prior_status # Empty) <=> (e.status = Defers)
     /\ e.prior_status # Defers
  \/ e \in TaskRemovedEvents

\* Call k, of a client that began n.
CallTyped(k, n) ==
  /\ k.pc \in {"idle", "look", "own", "load", "append", "list", "take", "purge_load", "purge"}
  /\ k.request \in Requests \cup {NoRequest}
  /\ k.harp \in Harps \cup {NoHarp}
  /\ TypedStream(k.loaded)
  /\ k.tries \in 0..(Attempts - 1)
  /\ k.seen \in Nat
  /\ k.todo \cup k.unpurged \subseteq Harps
  /\ k.probe \in Nat
  /\ k.pc # "idle" => k.request \in Requests /\ n > 0
  /\ k.pc \notin {"idle", "list", "take"} => k.harp \in Harps
  /\ k.pc = "look" => k.request.key # NoKey

AnswersTyped == answer \in [Clients -> [kind: AnswerKinds, harp: Harps \cup {NoHarp}]]

TypeInv ==
  /\ \A h \in Harps : TypedStream(streams[h])
  /\ purges \in [Harps -> Nat]
  /\ begun \in [Clients -> Nat]
  /\ AnswersTyped
  /\ \A c \in Clients : begun[c] <= MaxCalls[c] /\ CallTyped(call[c], begun[c])

LEMMA NothingTyped == TypedStream(<<>>)
BY DEF TypedStream

\* What an add records.
LEMMA AddWhole ==
  ASSUME NEW a \in AddTaskCommands, AddRefusal(a) = Sound
  PROVE  TaskAddedOf(a) \in TaskAddedEvents /\ WholeEvent(TaskAddedOf(a))
<1>1. a.text \in Texts
  BY DEF AddRefusal, TextRefusal, Sound, AddTaskCommands
<1>2. a.status = Absent \/ a.status \in Statuses
  BY DEF AddRefusal, StatusRefusal, GivenBlank, Sound, AddTaskCommands, Optional
<1>3. a.trigger = Absent \/ a.trigger \in Triggers
  BY DEF AddRefusal, StatusRefusal, GivenBlank, Sound, AddTaskCommands, Optional
<1>4. AddedStatus(a) \in Statuses
  BY <1>2, TaxonomyAssumption DEF AddedStatus
<1>5. (a.trigger # Absent) <=> (AddedStatus(a) = Defers)
  BY DEF AddRefusal, Sound
<1>6. TaskAddedOf(a) \in TaskAddedEvents
  BY <1>1, <1>3, <1>4, TaxonomyAssumption DEF TaskAddedOf, TaskAddedEvents, AddTaskCommands, Never
<1>7. /\ (TaskAddedOf(a).trigger # Empty) <=> (TaskAddedOf(a).status = Defers)
      /\ (TaskAddedOf(a).prior_status # Empty) <=> (TaskAddedOf(a).status = Defers)
      /\ TaskAddedOf(a).prior_status # Defers
  BY <1>3, <1>5, TaxonomyAssumption, NamesAssumption DEF TaskAddedOf
<1> QED BY <1>6, <1>7 DEF WholeEvent

\* A whole task deferred, on a trigger, and one at rest.
LEMMA DeferringWhole ==
  ASSUME NEW held, WholeTask(held), NEW t \in Triggers
  PROVE  WholeEvent(Deferring(held, t))
<1> DEFINE prior == IF held.status = Defers THEN held.prior_status ELSE held.status
<1>1. prior \in Statuses /\ prior # Empty /\ prior # Defers
  BY TaxonomyAssumption DEF WholeTask, TaskStates, DeferralWhole
<1>2. Deferring(held, t) =
        [type |-> "StatusChanged", status |-> Defers, trigger |-> t, at |-> Never,
         deferred_since |-> Never, prior_status |-> prior]
  BY DEF Deferring
<1>3. t # Empty
  BY NamesAssumption
<1> HIDE DEF prior
<1> QED BY <1>1, <1>2, <1>3, TaxonomyAssumption DEF StatusChangedEvents, WholeEvent, Never

LEMMA RestingWhole ==
  ASSUME NEW s \in Statuses, s # Defers PROVE WholeEvent(Resting(s))
BY TaxonomyAssumption, NamesAssumption DEF Resting, StatusChangedEvents, WholeEvent, Never

\* What a change of a whole task records.
LEMMA MovedWhole ==
  ASSUME NEW held, WholeTask(held), NEW a \in SetStatusCommands, ChangeRefusal(a) = Sound,
         Records(Moved(held, a))
  PROVE  WholeEvent(Moved(held, a).event)
<1> DEFINE e == Moved(held, a).event
<1>1. a.status = Absent \/ a.status \in Statuses
  BY DEF ChangeRefusal, StatusRefusal, GivenBlank, Sound, SetStatusCommands, Optional
<1>2. a.trigger \in {Absent, Empty} \cup Triggers
  BY DEF ChangeRefusal, StatusRefusal, Sound, SetStatusCommands, Optional
<1>3. Absent \notin Triggers /\ Empty \notin Triggers /\ Absent # Empty
  BY NamesAssumption DEF Absent, Empty
<1>4. CASE a.trigger \in Triggers
  BY <1>4, DeferringWhole DEF Moved, Recorded
<1>5. CASE a.trigger = Empty
  <2>1. a.status # Absent => a.status \in Statuses /\ a.status # Defers
    BY <1>1, <1>5 DEF ChangeRefusal, Sound
  <2>2. held.trigger # Empty => held.prior_status \in Statuses /\ held.prior_status # Defers
    BY DEF WholeTask, DeferralWhole, TaskStates
  <2>3. /\ a.status # Absent \/ held.trigger # Empty
        /\ e = IF a.status # Absent THEN Resting(a.status) ELSE Resting(held.prior_status)
    BY <1>3, <1>5 DEF Moved, Recorded, Records, Unchanged, NoEvent
  <2> QED BY <2>1, <2>2, <2>3, RestingWhole
<1>6. CASE a.trigger = Absent
  <2>1. a.status \in Statuses
    BY <1>1, <1>6, TaxonomyAssumption DEF ChangeRefusal, Sound
  <2>2. CASE a.status # Defers
    BY <1>3, <1>6, <2>1, <2>2, RestingWhole DEF Moved, Recorded
  <2>3. CASE a.status = Defers
    <3>1. held.trigger \in Triggers /\ e = Deferring(held, held.trigger)
      BY <1>3, <1>6, <2>3 DEF Moved, Recorded, Records, Refused, NoEvent, WholeTask, TaskStates
    <3> QED BY <3>1, DeferringWhole
  <2> QED BY <2>2, <2>3
<1> QED BY <1>2, <1>4, <1>5, <1>6

\* What a call records of whole tasks is whole.
LEMMA DecidedWhole ==
  ASSUME NEW k, k.request \in Requests, k.harp \in Harps, TypedStream(k.loaded),
         Records(Decided(k))
  PROVE  WholeEvent(Decided(k).event)
<1> DEFINE taken == k.loaded # <<>>
           held == Folded(k.loaded)
           a == CommandIn(k)
<1>1. Decided(k) = Decide(held, taken, a)
  BY DEF Decided
<1>2. taken => WholeTask(held)
  BY DEF TypedStream
<1>3. ~taken => held.harp_id = Empty
  BY NothingFolded DEF NoTask
<1>4. CASE k.request.op = "add"
  <2>1. a \in AddTaskCommands /\ a.type = "AddTask"
    BY <1>4 DEF CommandIn, Requests, Adds, Prunes, Changes, AddTaskCommands
  <2> HIDE DEF taken, held, a
  <2>2. AddRefusal(a) = Sound /\ Decided(k) = Recorded(TaskAddedOf(a))
    BY <1>1, <2>1 DEF Decide, DecideAdd, Records, Refused, NoEvent
  <2> QED BY <2>1, <2>2, AddWhole DEF Recorded
<1>5. CASE k.request.op = "set_status"
  <2>1. a \in SetStatusCommands /\ a.type = "SetStatus"
    BY <1>5 DEF CommandIn, Requests, Adds, Prunes, Changes, SetStatusCommands
  <2> HIDE DEF taken, held, a
  <2>2. Decided(k) = DecideSetStatus(held, a)
    BY <1>1, <2>1 DEF Decide
  <2>3. /\ Decided(k) = Moved(held, a) /\ ChangeRefusal(a) = Sound
        /\ LiveRefusal(held) = Sound
    BY <2>2 DEF DecideSetStatus, Records, Refused, NoEvent
  <2>4. WholeTask(held)
    BY <1>2, <1>3, <2>3 DEF LiveRefusal, Sound
  <2> QED BY <2>1, <2>3, <2>4, MovedWhole
<1>6. CASE k.request.op = "prune"
  <2>1. a \in RemoveTaskCommands /\ a.type = "RemoveTask"
    BY <1>6 DEF CommandIn, Requests, Adds, Prunes, Changes, RemoveTaskCommands
  <2> HIDE DEF taken, held, a
  <2>2. Decided(k).event = [type |-> "TaskRemoved", reason |-> a.reason]
    BY <1>1, <2>1 DEF Decide, DecideRemove, Records, Refused, Recorded, NoEvent
  <2> QED BY <2>1, <2>2 DEF WholeEvent, TaskRemovedEvents, RemoveTaskCommands
<1>7. k.request.op \in {"add", "set_status", "prune"}
  BY DEF Requests, Adds, Prunes, Changes
<1> QED BY <1>4, <1>5, <1>6, <1>7

\* A whole event leaves a whole task, on whatever task.
LEMMA AppliedWhole ==
  ASSUME NEW e, WholeEvent(e), NEW at \in {Old, Now}, NEW held,
         IF e.type = "TaskAdded" THEN held = NoTask ELSE WholeTask(held)
  PROVE  WholeTask(Apply(held, e, at)) /\ e \in TaskEvents
<1>0. at \in Int /\ at # Never /\ Never \in Int
  BY DEF Old, Now, Never
<1>1. CASE e \in TaskAddedEvents
  <2> DEFINE i == InstantOf(e.at, at)
             d == DeferredSince(e.deferred_since, e.trigger, i, Never)
  <2>1. e.type = "TaskAdded" /\ held = NoTask
    BY <1>1 DEF TaskAddedEvents
  <2>2. i \in Int /\ i # Never
    BY <1>0, <1>1 DEF InstantOf, TaskAddedEvents
  <2>3. d \in Int /\ (e.trigger # Empty => d # Never)
    BY <1>0, <1>1, <2>2 DEF DeferredSince, TaskAddedEvents
  <2>4. Apply(held, e, at) =
          [harp_id |-> e.harp_id, text |-> e.text, status |-> e.status, trigger |-> e.trigger,
           tags |-> e.tags, created_at |-> i, status_set_at |-> i, deferred_since |-> d,
           removed |-> FALSE, prior_status |-> e.prior_status]
    BY <2>1 DEF Apply, ApplyAdded, NoTask
  <2> HIDE DEF i, d
  <2>5. Apply(held, e, at) \in TaskStates
    BY <1>1, <2>2, <2>3, <2>4 DEF TaskStates, TaskAddedEvents
  <2>6. e.status # Empty /\ e.harp_id # Empty
    BY <1>1, NamesAssumption DEF TaskAddedEvents
  <2>7. /\ (e.trigger # Empty) <=> (e.status = Defers)
        /\ (e.prior_status # Empty) <=> (e.status = Defers)
        /\ e.prior_status # Defers
    BY <1>1 DEF WholeEvent, TaskRemovedEvents, TaskAddedEvents
  <2>8. e \in TaskEvents
    BY <1>1 DEF TaskEvents
  <2> QED BY <2>3, <2>4, <2>5, <2>6, <2>7, <2>8 DEF DeferralWhole, WholeTask
<1>2. CASE e \in StatusChangedEvents
  <2> DEFINE i == InstantOf(e.at, at)
             d == DeferredSince(e.deferred_since, e.trigger, i, held.deferred_since)
  <2>1. e.type = "StatusChanged" /\ WholeTask(held)
    BY <1>2 DEF StatusChangedEvents
  <2>2. i \in Int /\ i # Never
    BY <1>0, <1>2 DEF InstantOf, StatusChangedEvents
  <2>3. d \in Int /\ (e.trigger # Empty => d # Never)
    BY <1>0, <1>2, <2>1, <2>2 DEF DeferredSince, StatusChangedEvents, TaskStates, WholeTask
  <2>4. Apply(held, e, at) =
          [held EXCEPT !.status = e.status, !.trigger = e.trigger, !.status_set_at = i,
                       !.deferred_since = d, !.prior_status = e.prior_status]
    BY <2>1 DEF Apply, ApplyStatusChanged
  <2> HIDE DEF i, d
  <2>5. held \in TaskStates /\ held.harp_id # Empty
    BY <2>1 DEF WholeTask
  <2>6. Apply(held, e, at) \in TaskStates
    BY <1>2, <2>2, <2>3, <2>4, <2>5 DEF TaskStates, StatusChangedEvents
  <2>7. e.status # Empty
    BY <1>2, NamesAssumption DEF StatusChangedEvents
  <2>8. /\ (e.trigger # Empty) <=> (e.status = Defers)
        /\ (e.prior_status # Empty) <=> (e.status = Defers)
        /\ e.prior_status # Defers
    BY <1>2 DEF WholeEvent, TaskRemovedEvents, StatusChangedEvents
  <2>9. e \in TaskEvents
    BY <1>2 DEF TaskEvents
  <2>10. /\ Apply(held, e, at).harp_id = held.harp_id
         /\ Apply(held, e, at).status = e.status /\ Apply(held, e, at).trigger = e.trigger
         /\ Apply(held, e, at).prior_status = e.prior_status
         /\ Apply(held, e, at).deferred_since = d
    BY <2>4, <2>5 DEF TaskStates
  <2> QED BY <2>3, <2>5, <2>6, <2>7, <2>8, <2>9, <2>10 DEF DeferralWhole, WholeTask
<1>3. CASE e \in TaskRemovedEvents
  <2>1. e.type = "TaskRemoved" /\ WholeTask(held)
    BY <1>3 DEF TaskRemovedEvents
  <2>2. Apply(held, e, at) = [held EXCEPT !.removed = TRUE]
    BY <2>1 DEF Apply
  <2>3. e \in TaskEvents
    BY <1>3 DEF TaskEvents
  <2> QED BY <2>1, <2>2, <2>3 DEF WholeTask, TaskStates, DeferralWhole
<1> QED BY <1>1, <1>2, <1>3 DEF WholeEvent
LEMMA AppendedTyped ==
  ASSUME NEW s, TypedStream(s), NEW e, WholeEvent(e), NEW id \in CommandIds,
         e.type = "TaskAdded" <=> s = <<>>
  PROVE  TypedStream(Append(s, [event |-> e, recorded_at |-> Now, command_id |-> id]))
<1> DEFINE page == [event |-> e, recorded_at |-> Now, command_id |-> id]
<1>1. s \in Seq(Pages)
  BY DEF TypedStream
<1>2. IsStream(s)
  <2>1. \A i \in 1..Len(s) : s[i] \in {s[j] : j \in DOMAIN s}
    BY <1>1
  <2> QED BY <1>1, <2>1, IsASeq DEF IsStream
<1>3. Folded(Append(s, page)) = Apply(Folded(s), e, Now)
  <2>1. page.event = e /\ page.recorded_at = Now
    OBVIOUS
  <2> HIDE DEF page
  <2> QED BY <1>2, <2>1, FoldedAppend
<1>4. IF e.type = "TaskAdded" THEN Folded(s) = NoTask ELSE WholeTask(Folded(s))
  BY NothingFolded DEF TypedStream
<1>5. WholeTask(Folded(Append(s, page))) /\ e \in TaskEvents
  BY <1>3, <1>4, AppliedWhole
<1>6. page \in Pages
  BY <1>5 DEF Pages
<1> HIDE DEF page
<1>7. Append(s, page) \in Seq(Pages)
  BY <1>1, <1>6, AppendProperties
<1> QED BY <1>5, <1>7 DEF TypedStream, page

LEMMA InitTyped == Init => TypeInv
<1> SUFFICES ASSUME Init PROVE TypeInv
  OBVIOUS
<1>1. ASSUME NEW h \in Harps PROVE TypedStream(streams[h])
  <2>1. CASE streams[h] = <<>>
    BY <2>1, NothingTyped
  <2>2. CASE streams[h] \in OldStreams(h)
    <3>1. PICK a \in OldTasks :
            streams[h] = <<[event |-> TaskAddedOf([a EXCEPT !.harp_id = h]),
                            recorded_at |-> Old, command_id |-> OldId]>>
      BY <2>2 DEF OldStreams
    <3> DEFINE b == [a EXCEPT !.harp_id = h]
               e == TaskAddedOf(b)
               page == [event |-> e, recorded_at |-> Old, command_id |-> OldId]
    <3>2. a \in AddTaskCommands /\ CheckRefusal(a) = Sound
      BY RequestsAssumption
    <3>3. b \in AddTaskCommands
      BY <3>2 DEF AddTaskCommands
    <3>4. AddRefusal(a) = Sound
      BY <3>2 DEF CheckRefusal, AddTaskCommands
    <3>5. b.text = a.text /\ b.status = a.status /\ b.trigger = a.trigger
      BY <3>2 DEF AddTaskCommands
    <3> HIDE DEF b
    <3>6. AddRefusal(b) = Sound
      BY <3>4, <3>5 DEF AddRefusal, AddedStatus
    <3>7. WholeEvent(e) /\ e.type = "TaskAdded"
      BY <3>3, <3>6, AddWhole DEF TaskAddedOf
    <3> HIDE DEF e
    <3>8. WholeTask(Apply(NoTask, e, Old)) /\ e \in TaskEvents
      BY <3>7, AppliedWhole
    <3>9. page \in Pages
      BY <3>8 DEF Pages, CommandIds
    <3>10. page.event = e /\ page.recorded_at = Old
      OBVIOUS
    <3>11. streams[h] = <<page>>
      BY <3>1 DEF e, b
    <3> HIDE DEF page
    <3>12. streams[h] = Append(<<>>, page) /\ streams[h] \in Seq(Pages)
      BY <3>9, <3>11
    <3>13. Folded(Append(<<>>, page)) = Apply(NoTask, e, Old)
      BY <3>10, NoStream, NothingFolded, FoldedAppend
    <3> QED BY <3>8, <3>12, <3>13 DEF TypedStream
  <2> QED BY <2>1, <2>2 DEF Init
<1>2. purges \in [Harps -> Nat] /\ begun \in [Clients -> Nat]
  BY DEF Init
<1>3. AnswersTyped
  BY DEF Init, AnswersTyped, Said, Answer, AnswerKinds
<1>4. ASSUME NEW c \in Clients PROVE begun[c] <= MaxCalls[c] /\ CallTyped(call[c], begun[c])
  <2>1. call[c] = Idle /\ begun[c] = 0
    BY DEF Init
  <2>2. CallTyped(Idle, 0)
    BY NothingTyped, BoundsAssumption DEF CallTyped, Idle, NoRequest
  <2> QED BY <2>1, <2>2, BoundsAssumption
<1> QED BY <1>1, <1>2, <1>3, <1>4 DEF TypeInv

------------------------------------------------------------------------------
(* A call that moves on keeps the types.                                    *)

\* What a step leaves of the streams and the purges.
StoreTyped == (\A h \in Harps : TypedStream(streams[h])) /\ purges \in [Harps -> Nat]

LEMMA TypedMoves ==
  ASSUME StoreInv, TypeInv, StoreTyped', UNCHANGED begun, NEW c \in Clients, NEW k,
         CallTyped(k, begun[c]), call' = [call EXCEPT ![c] = k], AnswersTyped'
  PROVE  TypeInv'
<1>1. \A d \in Clients : call'[d] = IF d = c THEN k ELSE call[d]
  BY DEF StoreInv
<1>2. \A d \in Clients : begun'[d] <= MaxCalls[d] /\ CallTyped(call'[d], begun'[d])
  BY <1>1 DEF TypeInv
<1>3. begun' \in [Clients -> Nat]
  BY DEF TypeInv
<1> QED BY <1>2, <1>3 DEF TypeInv, StoreTyped

LEMMA TypedGoes ==
  ASSUME StoreInv, TypeInv, StoreTyped', UNCHANGED begun, NEW c \in Clients, NEW k,
         CallTyped(k, begun[c]), Goes(c, k)
  PROVE  TypeInv'
<1>1. AnswersTyped'
  BY DEF Goes, TypeInv, AnswersTyped
<1> QED BY <1>1, TypedMoves DEF Goes

LEMMA TypedEnds ==
  ASSUME StoreInv, TypeInv, StoreTyped', UNCHANGED begun, NEW c \in Clients, NEW said,
         said \in [kind: AnswerKinds, harp: Harps \cup {NoHarp}], Ends(c, said)
  PROVE  TypeInv'
<1>1. AnswersTyped'
  BY DEF Ends, TypeInv, AnswersTyped
<1>2. CallTyped(Idle, begun[c])
  BY NothingTyped, BoundsAssumption DEF CallTyped, Idle, NoRequest
<1> QED BY <1>1, <1>2, TypedMoves DEF Ends

\* A call goes to another place at the harp it is at.
LEMMA TypedTo ==
  ASSUME StoreInv, TypeInv, NEW c \in Clients, call[c].pc # "idle",
         NEW pc \in {"load", "take", "purge_load"},
         pc # "take" => call[c].harp \in Harps
  PROVE  CallTyped(To(c, pc), begun[c]) /\ IsCall(call[c])
<1>1. IsCall(call[c]) /\ CallTyped(call[c], begun[c])
  BY DEF StoreInv, CallDecided, TypeInv
<1> DEFINE k == To(c, pc)
<1>2. /\ k.pc = pc /\ k.tries = 0 /\ k.loaded = <<>> /\ k.request = call[c].request
      /\ k.harp = call[c].harp /\ k.probe = call[c].probe /\ k.seen = 0
      /\ k.todo = call[c].todo /\ k.unpurged = call[c].unpurged
  BY <1>1 DEF IsCall, To
<1> HIDE DEF k
<1>3. CallTyped(k, begun[c])
  BY <1>1, <1>2, NothingTyped, BoundsAssumption DEF CallTyped
<1> QED BY <1>1, <1>3 DEF k

\* A call loads what its harp holds, or finds its own add there.
LEMMA TypedFound ==
  ASSUME StoreInv, TypeInv, NEW c \in Clients, call[c].pc # "idle", call[c].harp \in Harps
  PROVE  CallTyped(FoundOwn(c), begun[c])
<1>1. CallTyped(call[c], begun[c]) /\ purges[call[c].harp] \in Nat
  BY DEF TypeInv
<1>2. PICK k : k = FoundOwn(c)
  OBVIOUS
<1>3. /\ k.pc = "own" /\ k.loaded = <<>> /\ k.seen = purges[call[c].harp] /\ k.tries = 0
      /\ k.request = call[c].request /\ k.harp = call[c].harp /\ k.probe = call[c].probe
      /\ k.todo = call[c].todo /\ k.unpurged = call[c].unpurged
  BY <1>2, FoundFields
<1>4. CallTyped(k, begun[c])
  BY <1>1, <1>3, NothingTyped, BoundsAssumption DEF CallTyped
<1> QED BY <1>2, <1>4

LEMMA TypedLoads ==
  ASSUME StoreInv, TypeInv, NEW c \in Clients, call[c].pc # "idle",
         NEW pc \in {"append", "purge"}, call[c].harp \in Harps
  PROVE  CallTyped(Reads(c, pc), begun[c])
<1>1. IsCall(call[c]) /\ CallTyped(call[c], begun[c])
  BY DEF StoreInv, CallDecided, TypeInv
<1>2. TypedStream(Held(c)) /\ purges[call[c].harp] \in Nat
  BY DEF TypeInv, Held
<1>3. PICK k : k = Reads(c, pc)
  OBVIOUS
<1>4. /\ k.pc = pc /\ k.tries = call[c].tries /\ k.loaded = Held(c)
      /\ k.seen = purges[call[c].harp]
      /\ k.request = call[c].request /\ k.harp = call[c].harp /\ k.probe = call[c].probe
      /\ k.todo = call[c].todo /\ k.unpurged = call[c].unpurged
  BY <1>3, ReadsFields
<1>5. CallTyped(k, begun[c])
  BY <1>1, <1>2, <1>4 DEF CallTyped
<1> QED BY <1>3, <1>5

LEMMA TypedRetries ==
  ASSUME StoreInv, TypeInv, StoreTyped', UNCHANGED begun, NEW c \in Clients,
         call[c].pc # "idle", call[c].harp \in Harps,
         NEW pc \in {"load", "purge_load"}, Retries(c, pc)
  PROVE  TypeInv'
<1> DEFINE k == [call[c] EXCEPT !.pc = pc, !.tries = @ + 1, !.loaded = <<>>, !.seen = 0]
<1>1. IsCall(call[c]) /\ CallTyped(call[c], begun[c])
  BY DEF StoreInv, CallDecided, TypeInv
<1>2. CASE call[c].tries + 1 < Attempts /\ Goes(c, k)
  <2>1. /\ k.pc = pc /\ k.tries = call[c].tries + 1 /\ k.loaded = <<>> /\ k.seen = 0
        /\ k.request = call[c].request /\ k.harp = call[c].harp /\ k.probe = call[c].probe
        /\ k.todo = call[c].todo /\ k.unpurged = call[c].unpurged
    BY <1>1 DEF IsCall
  <2>2. k.tries \in 0..(Attempts - 1)
    BY <1>1, <1>2, <2>1, BoundsAssumption DEF CallTyped
  <2> HIDE DEF k
  <2>3. CallTyped(k, begun[c])
    BY <1>1, <2>1, <2>2, NothingTyped DEF CallTyped
  <2> QED BY <1>2, <2>3, TypedGoes
<1>3. CASE Ends(c, Said("gave_up"))
  BY <1>3, TypedEnds DEF Said, Answer, AnswerKinds
<1> QED BY <1>2, <1>3 DEF Retries

LEMMA TypedAdding ==
  ASSUME StoreInv, TypeInv, StoreTyped', UNCHANGED begun, NEW c \in Clients,
         call[c].pc # "idle", call[c].harp \in Harps, NEW position \in Nat \ {0},
         position <= Positions(call[c].request), Adding(c, position)
  PROVE  TypeInv'
<1>1. PICK h \in Places(call[c].request, position) :
        Goes(c, [To(c, "load") EXCEPT !.harp = h, !.probe = position])
  BY DEF Adding
<1>2. IsCall(call[c]) /\ CallTyped(call[c], begun[c]) /\ call[c].request \in Requests
  BY DEF StoreInv, CallDecided, TypeInv, CallTyped
<1>3. h \in Harps
  <2>1. CASE call[c].request.key = NoKey
    BY <1>1, <2>1 DEF Places
  <2>2. CASE call[c].request.key # NoKey
    <3>1. call[c].request.key \in Keys
      BY <1>2, <2>2 DEF Requests, Adds, Changes, Prunes
    <3>2. h = ProbeOrder[call[c].request.key][position]
      BY <1>1, <2>2 DEF Places
    <3>3. position \in 1..Len(ProbeOrder[call[c].request.key])
      BY <2>2, <3>1, KeyPlaces DEF Positions
    <3> QED BY <3>1, <3>2, <3>3, KeyPlaces
  <2> QED BY <2>1, <2>2
<1> DEFINE k == [To(c, "load") EXCEPT !.harp = h, !.probe = position]
<1>4. /\ k.pc = "load" /\ k.tries = 0 /\ k.loaded = <<>> /\ k.seen = 0
      /\ k.request = call[c].request /\ k.harp = h /\ k.probe = position
      /\ k.todo = call[c].todo /\ k.unpurged = call[c].unpurged
  BY <1>2 DEF IsCall, To
<1>5. Goes(c, k)
  BY <1>1
<1> HIDE DEF k
<1>6. CallTyped(k, begun[c])
  BY <1>2, <1>3, <1>4, NothingTyped, BoundsAssumption DEF CallTyped
<1> QED BY <1>5, <1>6, TypedGoes

LEMMA OthersTyped ==
  ASSUME TypeInv, UNCHANGED <<streams, purges>> PROVE StoreTyped'
BY DEF TypeInv, StoreTyped

------------------------------------------------------------------------------
(* Every step keeps the types.                                              *)

LEMMA BeginTyped ==
  ASSUME StoreInv, TypeInv, NEW c \in Clients, NEW r \in Sends[c], Begin(c, r)
  PROVE  TypeInv'
<1> DEFINE begin == [Idle EXCEPT !.request = r, !.harp = r.harp]
<1>1. r \in Requests /\ MaxCalls[c] \in Nat /\ begun[c] \in Nat /\ begun[c] < MaxCalls[c]
  BY RequestsAssumption, BoundsAssumption DEF TypeInv, Begin
<1>2. /\ begun' = [begun EXCEPT ![c] = @ + 1]
      /\ UNCHANGED <<streams, purges>>
  BY DEF Begin
<1>3. /\ begun' \in [Clients -> Nat] /\ begun'[c] = begun[c] + 1
      /\ \A d \in Clients : d # c => begun'[d] = begun[d]
  BY <1>1, <1>2 DEF TypeInv
<1>4. PICK k : Goes(c, k) /\ CallTyped(k, begun[c] + 1)
  <2>1. CASE r.op = "prune"
    <3>1. Goes(c, [begin EXCEPT !.pc = "list"])
      BY <2>1 DEF Begin
    <3>2. CallTyped([begin EXCEPT !.pc = "list"], begun[c] + 1)
      BY <1>1, <2>1, NothingTyped, BoundsAssumption
      DEF CallTyped, Idle, Requests, Prunes, Adds, Changes
    <3> QED BY <3>1, <3>2
  <2>2. CASE r.op = "set_status"
    <3>1. Goes(c, [begin EXCEPT !.pc = "load"])
      BY <2>2 DEF Begin
    <3>2. CallTyped([begin EXCEPT !.pc = "load"], begun[c] + 1)
      BY <1>1, <2>2, NothingTyped, BoundsAssumption
      DEF CallTyped, Idle, Requests, Prunes, Adds, Changes
    <3> QED BY <3>1, <3>2
  <2>3. CASE r.op = "add"
    <3> DEFINE pc == IF r.key = NoKey THEN "load" ELSE "look"
    <3>1. PICK h \in Places(r, 1) : Goes(c, [begin EXCEPT !.pc = pc, !.harp = h, !.probe = 1])
      BY <2>3 DEF Begin
    <3>2. h \in Harps
      <4>1. CASE r.key = NoKey
        BY <3>1, <4>1 DEF Places
      <4>2. CASE r.key # NoKey
        <5>1. r.key \in Keys
          BY <1>1, <4>2 DEF Requests, Adds, Changes, Prunes
        <5>2. 1 \in 1..Len(ProbeOrder[r.key]) /\ h = ProbeOrder[r.key][1]
          BY <3>1, <4>2, <5>1, KeyPlaces DEF Places
        <5> QED BY <5>1, <5>2, KeyPlaces
      <4> QED BY <4>1, <4>2
    <3>3. pc \in {"load", "look"} /\ (pc = "look" => r.key # NoKey)
      OBVIOUS
    <3> HIDE DEF pc
    <3>4. CallTyped([begin EXCEPT !.pc = pc, !.harp = h, !.probe = 1], begun[c] + 1)
      BY <1>1, <3>2, <3>3, NothingTyped, BoundsAssumption DEF CallTyped, Idle
    <3> QED BY <3>1, <3>4
  <2> QED BY <2>1, <2>2, <2>3 DEF Begin
<1>5. \A d \in Clients : call'[d] = IF d = c THEN k ELSE call[d]
  BY <1>4 DEF Goes, StoreInv
<1>6. \A d \in Clients : begun'[d] <= MaxCalls[d] /\ CallTyped(call'[d], begun'[d])
  BY <1>1, <1>3, <1>4, <1>5 DEF TypeInv
<1>7. AnswersTyped'
  BY <1>4 DEF Goes, TypeInv, AnswersTyped
<1> QED BY <1>2, <1>3, <1>6, <1>7, OthersTyped DEF TypeInv, StoreTyped

LEMMA LookTyped ==
  ASSUME StoreInv, TypeInv, NEW c \in Clients, Look(c)
  PROVE  TypeInv'
<1>1. /\ IsCall(call[c]) /\ CallTyped(call[c], begun[c]) /\ call[c].pc = "look"
      /\ StoreTyped' /\ UNCHANGED begun
  BY OthersTyped DEF StoreInv, CallDecided, TypeInv, Look
<1>2. /\ call[c].harp \in Harps /\ call[c].probe \in Nat
      /\ call[c].request.key \in Keys /\ call[c].request.key # NoKey
  BY <1>1 DEF CallTyped, Requests, Adds, Changes, Prunes
<1>3. CASE Goes(c, FoundOwn(c))
  BY <1>1, <1>2, <1>3, TypedFound, TypedGoes
<1>4. CASE /\ call[c].probe + 1 <= Positions(call[c].request)
           /\ Goes(c, [call[c] EXCEPT !.harp = ProbeOrder[call[c].request.key][call[c].probe + 1],
                                      !.probe = call[c].probe + 1])
  <2>1. ProbeOrder[call[c].request.key][call[c].probe + 1] \in Harps
    <3>1. call[c].probe + 1 \in 1..Len(ProbeOrder[call[c].request.key])
      BY <1>2, <1>4, KeyPlaces DEF Positions
    <3> QED BY <1>2, <3>1, KeyPlaces
  <2> DEFINE h == ProbeOrder[call[c].request.key][call[c].probe + 1]
             k == [call[c] EXCEPT !.harp = h, !.probe = call[c].probe + 1]
  <2> HIDE DEF h
  <2>2. /\ k.pc = call[c].pc /\ k.tries = call[c].tries /\ k.loaded = call[c].loaded
        /\ k.seen = call[c].seen
        /\ k.request = call[c].request /\ k.harp = h /\ k.probe = call[c].probe + 1
        /\ k.todo = call[c].todo /\ k.unpurged = call[c].unpurged
    BY <1>1 DEF IsCall
  <2>3. Goes(c, k)
    BY <1>4 DEF h
  <2> HIDE DEF k
  <2>4. CallTyped(k, begun[c])
    BY <1>1, <1>2, <2>1, <2>2 DEF CallTyped, h
  <2> QED BY <1>1, <2>3, <2>4, TypedGoes
<1>5. CASE Adding(c, 1)
  <2>1. 1 <= Positions(call[c].request)
    BY <1>2, KeyPlaces DEF Positions
  <2> QED BY <1>1, <1>2, <1>5, <2>1, TypedAdding
<1> QED BY <1>3, <1>4, <1>5 DEF Look

LEMMA LoadTyped ==
  ASSUME StoreInv, TypeInv, NEW c \in Clients, Load(c)
  PROVE  TypeInv'
<1>1. /\ IsCall(call[c]) /\ CallTyped(call[c], begun[c]) /\ call[c].pc = "load"
      /\ StoreTyped' /\ UNCHANGED begun
  BY OthersTyped DEF StoreInv, CallDecided, TypeInv, Load
<1>2. call[c].harp \in Harps /\ call[c].probe \in Nat /\ call[c].request \in Requests
  BY <1>1 DEF CallTyped
<1>3. CASE Goes(c, FoundOwn(c))
  BY <1>1, <1>2, <1>3, TypedFound, TypedGoes
<1>4. CASE Goes(c, Reads(c, "append"))
  BY <1>1, <1>2, <1>4, TypedLoads, TypedGoes
<1>5. CASE Ends(c, Answer("task", call[c].harp))
  BY <1>1, <1>2, <1>5, TypedEnds DEF Answer, AnswerKinds
<1>6. CASE call[c].probe < Positions(call[c].request) /\ Adding(c, call[c].probe + 1)
  <2>1. Positions(call[c].request) \in Nat
    <3>1. call[c].request.key # NoKey => call[c].request.key \in Keys
      BY <1>2 DEF Requests, Adds, Changes, Prunes
    <3> QED BY <3>1, KeyPlaces, BoundsAssumption DEF Positions
  <2>2. call[c].probe + 1 <= Positions(call[c].request) /\ call[c].probe + 1 \in Nat \ {0}
    BY <1>2, <1>6, <2>1
  <2> QED BY <1>1, <1>2, <1>6, <2>2, TypedAdding
<1>7. CASE Ends(c, Said("exhausted")) \/ Ends(c, Said("refused"))
  BY <1>1, <1>7, TypedEnds DEF Said, Answer, AnswerKinds
<1>8. CASE Retries(c, "load")
  BY <1>1, <1>2, <1>8, TypedRetries
<1> QED BY <1>3, <1>4, <1>5, <1>6, <1>7, <1>8 DEF Load

LEMMA LoadRemovalTyped ==
  ASSUME StoreInv, TypeInv, NEW c \in Clients, LoadRemoval(c)
  PROVE  TypeInv'
<1>1. /\ CallTyped(call[c], begun[c]) /\ call[c].pc = "load"
      /\ StoreTyped' /\ UNCHANGED begun
  BY OthersTyped DEF TypeInv, LoadRemoval
<1>2. call[c].harp \in Harps
  BY <1>1 DEF CallTyped
<1>3. CASE Goes(c, To(c, "take")) \/ Goes(c, To(c, "purge_load"))
  BY <1>1, <1>2, <1>3, TypedTo, TypedGoes
<1>4. CASE Goes(c, Reads(c, "append"))
  BY <1>1, <1>2, <1>4, TypedLoads, TypedGoes
<1>5. CASE Retries(c, "load")
  BY <1>1, <1>2, <1>5, TypedRetries
<1> QED BY <1>3, <1>4, <1>5 DEF LoadRemoval

LEMMA LoadPurgeTyped ==
  ASSUME StoreInv, TypeInv, NEW c \in Clients, LoadPurge(c)
  PROVE  TypeInv'
<1>1. /\ CallTyped(call[c], begun[c]) /\ call[c].pc = "purge_load"
      /\ StoreTyped' /\ UNCHANGED begun
  BY OthersTyped DEF TypeInv, LoadPurge
<1>2. call[c].harp \in Harps
  BY <1>1 DEF CallTyped
<1>3. CASE Goes(c, To(c, "take"))
  BY <1>1, <1>2, <1>3, TypedTo, TypedGoes
<1>4. CASE Goes(c, Reads(c, "purge"))
  BY <1>1, <1>2, <1>4, TypedLoads, TypedGoes
<1>5. CASE Retries(c, "purge_load")
  BY <1>1, <1>2, <1>5, TypedRetries
<1> QED BY <1>3, <1>4, <1>5 DEF LoadPurge

LEMMA CommitTyped ==
  ASSUME StoreInv, TypeInv, NEW c \in Clients, Commit(c)
  PROVE  TypeInv'
<1> DEFINE k == call[c]
           h == k.harp
           e == Decided(k).event
           page == [event |-> e, recorded_at |-> Now, command_id |-> CommandId(c)]
<1>1. CallTyped(k, begun[c]) /\ k.pc = "append" /\ UNCHANGED begun /\ CallDecided(k)
  BY DEF StoreInv, TypeInv, Commit
<1>2. h \in Harps /\ k.request \in Requests /\ begun[c] \in 1..MaxCalls[c]
  BY <1>1, BoundsAssumption DEF CallTyped, TypeInv
<1>3. StoreTyped'
  <2>1. CASE UNCHANGED streams
    BY <2>1, OthersTyped DEF Commit
  <2>2. CASE ~HeadMoved(c) /\ streams' = [streams EXCEPT ![h] = Append(@, page)]
    <3>1. TypedStream(streams[h]) /\ TypedStream(k.loaded) /\ Records(Decided(k))
      BY <1>1, <1>2 DEF TypeInv, CallTyped, CallDecided
    <3>2. WholeEvent(e)
      BY <1>2, <3>1, DecidedWhole
    <3>3. e.type = "TaskAdded" <=> k.loaded = <<>>
      BY <1>2, <3>1, DecidedEvent
    <3>4. k.loaded = <<>> <=> streams[h] = <<>>
      <4>1. Len(streams[h]) = Len(k.loaded)
        BY <2>2 DEF HeadMoved, Held
      <4>2. streams[h] \in Seq(Pages) /\ k.loaded \in Seq(Pages)
        BY <3>1 DEF TypedStream
      <4> QED BY <4>1, <4>2, EmptySeq
    <3>5. CommandId(c) \in CommandIds
      <4>1. k.request.key # NoKey =>
              k.request.key \in Keys /\ k.request.op \in {"add", "set_status"}
        BY <1>2 DEF Requests, Adds, Changes, Prunes
      <4> QED BY <1>2, <4>1 DEF CommandId, CommandIds
    <3>6. TypedStream(Append(streams[h], page))
      BY <3>1, <3>2, <3>3, <3>4, <3>5, AppendedTyped
    <3> HIDE DEF page
    <3>7. \A g \in Harps : streams'[g] = IF g = h THEN Append(streams[h], page) ELSE streams[g]
      BY <2>2 DEF StoreInv, StreamsWhole
    <3>8. UNCHANGED purges
      BY DEF Commit
    <3> QED BY <3>6, <3>7, <3>8 DEF StoreTyped, TypeInv
  <2> QED BY <2>1, <2>2, CommandDecided DEF Commit, Decided
<1>4. CASE Goes(c, To(c, "purge_load"))
  BY <1>1, <1>2, <1>3, <1>4, TypedTo, TypedGoes
<1>5. CASE Ends(c, Answer("task", h))
  BY <1>1, <1>2, <1>3, <1>5, TypedEnds DEF Answer, AnswerKinds
<1>6. CASE Retries(c, "load")
  BY <1>1, <1>2, <1>3, <1>6, TypedRetries
<1> QED BY <1>4, <1>5, <1>6 DEF Commit

LEMMA PurgeTyped ==
  ASSUME StoreInv, TypeInv, NEW c \in Clients, PurgeAt(c)
  PROVE  TypeInv'
<1> DEFINE h == call[c].harp
<1>1. CallTyped(call[c], begun[c]) /\ call[c].pc = "purge" /\ UNCHANGED begun
  BY DEF TypeInv, PurgeAt
<1>2. h \in Harps
  BY <1>1 DEF CallTyped
<1>3. StoreTyped'
  <2>1. CASE UNCHANGED <<streams, purges>>
    BY <2>1, OthersTyped
  <2>2. CASE /\ streams' = [streams EXCEPT ![h] = <<>>]
             /\ purges' = [purges EXCEPT ![h] = @ + 1]
    <3>1. \A g \in Harps : streams'[g] = IF g = h THEN <<>> ELSE streams[g]
      BY <2>2 DEF StoreInv, StreamsWhole
    <3>2. purges' \in [Harps -> Nat]
      BY <1>2, <2>2 DEF TypeInv
    <3> QED BY <3>1, <3>2, NothingTyped DEF StoreTyped, TypeInv
  <2> QED BY <2>1, <2>2 DEF PurgeAt
<1>4. CASE Goes(c, To(c, "take"))
  BY <1>1, <1>2, <1>3, <1>4, TypedTo, TypedGoes
<1>5. CASE Retries(c, "purge_load")
  BY <1>1, <1>2, <1>3, <1>5, TypedRetries
<1> QED BY <1>4, <1>5 DEF PurgeAt

LEMMA ListTyped ==
  ASSUME StoreInv, TypeInv, NEW c \in Clients, List(c)
  PROVE  TypeInv'
<1> DEFINE todo == {h \in Harps : Qualifies(Task(h))}
           left == {h \in Harps : Unpurged(h)}
           found == [h \in left |-> purges[h]]
           to == To(c, "take")
           k == [to EXCEPT !.todo = todo, !.unpurged = left, !.found = found]
<1>1. IsCall(call[c]) /\ call[c].pc = "list" /\ StoreTyped' /\ UNCHANGED begun /\ Goes(c, k)
  BY OthersTyped DEF StoreInv, CallDecided, TypeInv, List
<1>2. todo \subseteq Harps /\ left \subseteq Harps
  OBVIOUS
<1>3. CallTyped(to, begun[c])
  BY <1>1, TypedTo
<1> HIDE DEF todo, left, found
<1>4. /\ k.pc = to.pc /\ k.tries = to.tries /\ k.loaded = to.loaded /\ k.request = to.request
      /\ k.harp = to.harp /\ k.probe = to.probe /\ k.seen = to.seen
      /\ k.todo = todo /\ k.unpurged = left
  BY <1>1 DEF IsCall, To
<1> HIDE DEF k, to
<1>5. CallTyped(k, begun[c])
  BY <1>2, <1>3, <1>4 DEF CallTyped
<1> QED BY <1>1, <1>5, TypedGoes

LEMMA TakeTyped ==
  ASSUME StoreInv, TypeInv, NEW c \in Clients, Take(c)
  PROVE  TypeInv'
<1>1. /\ IsCall(call[c]) /\ CallTyped(call[c], begun[c]) /\ call[c].pc = "take"
      /\ StoreTyped' /\ UNCHANGED begun
  BY OthersTyped DEF StoreInv, CallDecided, TypeInv, Take
<1>2. call[c].todo \cup call[c].unpurged \subseteq Harps
  BY <1>1 DEF CallTyped
<1>3. ASSUME NEW h \in call[c].todo,
             Goes(c, [To(c, "load") EXCEPT !.harp = h, !.todo = @ \ {h}])
      PROVE  TypeInv'
  <2> DEFINE k == [To(c, "load") EXCEPT !.harp = h, !.todo = @ \ {h}]
  <2>1. /\ k.pc = "load" /\ k.tries = 0 /\ k.loaded = <<>> /\ k.request = call[c].request
        /\ k.harp = h /\ k.probe = call[c].probe /\ k.seen = 0
        /\ k.todo = call[c].todo \ {h} /\ k.unpurged = call[c].unpurged
    BY <1>1 DEF IsCall, To
  <2> HIDE DEF k
  <2>2. CallTyped(k, begun[c])
    BY <1>1, <1>2, <2>1, NothingTyped, BoundsAssumption DEF CallTyped
  <2> QED BY <1>1, <1>3, <2>2, TypedGoes DEF k
<1>4. ASSUME NEW h \in call[c].unpurged,
             Goes(c, [To(c, "purge_load") EXCEPT !.harp = h, !.unpurged = @ \ {h}])
      PROVE  TypeInv'
  <2> DEFINE k == [To(c, "purge_load") EXCEPT !.harp = h, !.unpurged = @ \ {h}]
  <2>1. /\ k.pc = "purge_load" /\ k.tries = 0 /\ k.loaded = <<>> /\ k.request = call[c].request
        /\ k.harp = h /\ k.probe = call[c].probe /\ k.seen = 0
        /\ k.todo = call[c].todo /\ k.unpurged = call[c].unpurged \ {h}
    BY <1>1 DEF IsCall, To
  <2> HIDE DEF k
  <2>2. CallTyped(k, begun[c])
    BY <1>1, <1>2, <2>1, NothingTyped, BoundsAssumption DEF CallTyped
  <2> QED BY <1>1, <1>4, <2>2, TypedGoes DEF k
<1>5. CASE Ends(c, Said("pruned"))
  BY <1>1, <1>5, TypedEnds DEF Said, Answer, AnswerKinds
<1> QED BY <1>3, <1>4, <1>5 DEF Take

LEMMA EndsTyped ==
  ASSUME StoreInv, TypeInv, NEW c \in Clients, ReadOwn(c) \/ Fail(c)
  PROVE  TypeInv'
<1>1. CallTyped(call[c], begun[c]) /\ StoreTyped' /\ UNCHANGED begun
  BY OthersTyped DEF TypeInv, ReadOwn, Fail
<1>2. CASE ReadOwn(c)
  <2>1. call[c].harp \in Harps
    BY <1>1, <1>2 DEF CallTyped, ReadOwn
  <2>2. Ends(c, Said("vanished")) \/ Ends(c, Answer("task", call[c].harp))
    BY <1>2 DEF ReadOwn
  <2> QED BY <1>1, <2>1, <2>2, TypedEnds DEF Said, Answer, AnswerKinds
<1>3. CASE Fail(c)
  BY <1>1, <1>3, TypedEnds DEF Fail, Said, Answer, AnswerKinds
<1> QED BY <1>2, <1>3

LEMMA NextTyped == StoreInv /\ TypeInv /\ [Next]_vars => TypeInv'
<1> SUFFICES ASSUME StoreInv, TypeInv, [Next]_vars PROVE TypeInv'
  OBVIOUS
<1>1. ASSUME NEW c \in Clients, NEW r \in Sends[c], Begin(c, r) PROVE TypeInv'
  BY <1>1, BeginTyped
<1>2. ASSUME NEW c \in Clients, Step(c) \/ Fail(c) PROVE TypeInv'
  BY <1>2, LookTyped, LoadTyped, LoadRemovalTyped, CommitTyped, ListTyped, TakeTyped,
     LoadPurgeTyped, PurgeTyped, EndsTyped DEF Step
<1>3. CASE UNCHANGED vars
  BY <1>3 DEF vars, TypeInv, AnswersTyped
<1> QED BY <1>1, <1>2, <1>3 DEF Next

\* The store's types: whatever is decided on what was loaded before, and
\* appended to whatever the harp has come to hold, a page holds an event of its
\* type, under an id some call may send, and a call is somewhere a call can be.
THEOREM StoreTypeOK == Spec => []TypeOK
<1>1. Spec => []StoreInv
  BY InitWhole, NextWhole, PTL DEF Spec
<1>2. StoreInv /\ TypeInv => TypeOK
  <2> SUFFICES ASSUME StoreInv, TypeInv PROVE TypeOK
    OBVIOUS
  <2>1. streams \in [Harps -> Seq(Pages)]
    BY DEF StoreInv, StreamsWhole, TypeInv, TypedStream
  <2> QED BY <2>1 DEF TypeInv, TypeOK, AnswersTyped, CallTyped, TypedStream
<1> QED BY <1>1, <1>2, InitTyped, NextTyped, PTL DEF Spec

\* A task of the store is whole, whatever raced: it has a status, it is deferred
\* exactly while it holds a trigger and a status to return to, and it knows
\* since when.  What decided on a task a prune has meanwhile purged, and came to
\* be appended to the one that took its harp, leaves that one whole too
\* (tasks::apply, kernel-runner).
THEOREM StoreTasksWhole ==
  Spec => [](\A h \in Harps : streams[h] # <<>> => DeferralWhole(Task(h)))
<1>1. Spec => []StoreInv
  BY InitWhole, NextWhole, PTL DEF Spec
<1>2. TypeInv => \A h \in Harps : streams[h] # <<>> => DeferralWhole(Task(h))
  BY DEF TypeInv, TypedStream, WholeTask, Task
<1> QED BY <1>1, <1>2, InitTyped, NextTyped, PTL DEF Spec

------------------------------------------------------------------------------
(* A keyed add is answered with its own task, beside prunes.                *)

\* A call that found its own add has it still at its harp, unless it was purged.
OwnThere(k, id) ==
  /\ k.pc = "idle" => k.request.op # "add"
  /\ k.pc = "own" =>
       /\ k.seen <= purges[k.harp]
       /\ k.seen = purges[k.harp] => Caused(streams[k.harp], id)

OwnInv ==
  /\ StoreInv
  /\ TypeInv
  /\ \A c \in Clients : OwnThere(call[c], CommandId(c))

\* A step purges a harp's stream, or leaves the commands on it there.
EffectsStand ==
  \A h \in Harps : \/ purges'[h] > purges[h]
                   \/ /\ purges'[h] = purges[h]
                      /\ \A id : Caused(streams[h], id) => Caused(streams'[h], id)

\* c's keyed add, if it ends in this step, is answered of its own.
AnswersOwn(c) ==
  call[c].request.op = "add" /\ call[c].request.key # NoKey /\ call'[c].pc = "idle"
    => /\ answer'[c].kind = "task"
            => \/ Caused(streams'[answer'[c].harp], CommandId(c))
               \/ call[c].pc = "own" /\ PurgedSinceSeen(c)
       /\ answer'[c].kind = "vanished" => PurgedSinceSeen(c)

LEMMA OwnMoves ==
  ASSUME OwnInv, StoreInv', TypeInv', EffectsStand, NEW c \in Clients, NEW k,
         call' = [call EXCEPT ![c] = k], OwnThere(k, CommandId(c))', AnswersOwn(c),
         \A d \in Clients : d # c => begun'[d] = begun[d]
  PROVE  OwnInv' /\ \A d \in Clients : AnswersOwn(d)
<1>1. \A d \in Clients : call'[d] = IF d = c THEN k ELSE call[d]
  BY DEF OwnInv, StoreInv
<1>2. ASSUME NEW d \in Clients, d # c
      PROVE  OwnThere(call[d], CommandId(d))' /\ AnswersOwn(d)
  <2>1. call'[d] = call[d] /\ CommandId(d)' = CommandId(d)
    BY <1>1, <1>2 DEF CommandId
  <2>2. OwnThere(call[d], CommandId(d)) /\ CallTyped(call[d], begun[d])
    BY DEF OwnInv, TypeInv
  <2>3. ASSUME call[d].pc = "own"
        PROVE  /\ call[d].seen <= purges'[call[d].harp]
               /\ call[d].seen = purges'[call[d].harp] =>
                    Caused(streams'[call[d].harp], CommandId(d))
    <3>1. call[d].harp \in Harps /\ call[d].seen \in Nat
      BY <2>2, <2>3 DEF CallTyped
    <3>2. purges[call[d].harp] \in Nat /\ purges'[call[d].harp] \in Nat
      BY <3>1 DEF OwnInv, TypeInv
    <3>3. /\ call[d].seen <= purges[call[d].harp]
          /\ call[d].seen = purges[call[d].harp] => Caused(streams[call[d].harp], CommandId(d))
      BY <2>2, <2>3 DEF OwnThere
    <3>4. CASE purges'[call[d].harp] > purges[call[d].harp]
      BY <3>1, <3>2, <3>3, <3>4
    <3>5. CASE purges'[call[d].harp] = purges[call[d].harp]
      BY <3>1, <3>2, <3>3, <3>5 DEF EffectsStand
    <3> QED BY <3>1, <3>4, <3>5 DEF EffectsStand
  <2>4. OwnThere(call[d], CommandId(d))'
    BY <2>1, <2>2, <2>3 DEF OwnThere
  <2>5. AnswersOwn(d)
    BY <2>1, <2>2 DEF AnswersOwn, OwnThere
  <2> QED BY <2>4, <2>5
<1>3. \A d \in Clients : OwnThere(call[d], CommandId(d))'
  BY <1>1, <1>2
<1> QED BY <1>2, <1>3 DEF OwnInv

\* A call that goes on, not to its own; one that ends otherwise than with a task.
LEMMA OwnGoes ==
  ASSUME OwnInv, StoreInv', TypeInv', EffectsStand, NEW c \in Clients, NEW k, Goes(c, k),
         k.pc \notin {"own", "idle"}, \A d \in Clients : d # c => begun'[d] = begun[d]
  PROVE  OwnInv' /\ \A d \in Clients : AnswersOwn(d)
<1>1. OwnThere(k, CommandId(c))' /\ call'[c].pc # "idle"
  BY DEF OwnThere, Goes, OwnInv, StoreInv
<1> QED BY <1>1, OwnMoves DEF Goes, AnswersOwn

LEMMA OwnEnds ==
  ASSUME OwnInv, StoreInv', TypeInv', EffectsStand, NEW c \in Clients, NEW said,
         Ends(c, said), UNCHANGED begun,
         call[c].request.op = "add" /\ call[c].request.key # NoKey =>
           /\ said.kind = "task" => \/ Caused(streams'[said.harp], CommandId(c))
                                    \/ call[c].pc = "own" /\ PurgedSinceSeen(c)
           /\ said.kind = "vanished" => PurgedSinceSeen(c)
  PROVE  OwnInv' /\ \A d \in Clients : AnswersOwn(d)
<1>1. OwnThere(Idle, CommandId(c))' /\ answer'[c] = said
  BY DEF OwnThere, Idle, NoRequest, Ends, OwnInv, StoreInv
<1> QED BY <1>1, OwnMoves DEF Ends, AnswersOwn

LEMMA OwnSaid ==
  ASSUME OwnInv, StoreInv', TypeInv', EffectsStand, NEW c \in Clients, UNCHANGED begun,
         NEW kind \in {"exhausted", "refused", "gave_up", "failed", "pruned"},
         Ends(c, Said(kind))
  PROVE  OwnInv' /\ \A d \in Clients : AnswersOwn(d)
<1>1. Said(kind).kind \notin {"task", "vanished"}
  BY DEF Said, Answer
<1> QED BY <1>1, OwnEnds

LEMMA OwnFound ==
  ASSUME OwnInv, StoreInv', TypeInv', UNCHANGED <<streams, purges, begun>>,
         NEW c \in Clients, call[c].harp \in Harps,
         Caused(Held(c), CommandId(c)), Goes(c, FoundOwn(c))
  PROVE  OwnInv' /\ \A d \in Clients : AnswersOwn(d)
<1>1. PICK k : k = FoundOwn(c)
  OBVIOUS
<1>2. /\ k.pc = "own" /\ k.request = call[c].request /\ k.harp = call[c].harp
      /\ k.seen = purges[call[c].harp]
  BY <1>1, FoundFields DEF OwnInv
<1>3. call'[c] = k
  BY <1>1 DEF Goes, OwnInv, StoreInv
<1>4. CommandId(c)' = CommandId(c)
  BY <1>2, <1>3 DEF CommandId
<1>5. purges[call[c].harp] \in Nat
  BY DEF OwnInv, TypeInv
<1>6. OwnThere(k, CommandId(c))'
  BY <1>2, <1>4, <1>5 DEF OwnThere, Held
<1>7. EffectsStand
  BY DEF EffectsStand
<1> QED BY <1>1, <1>2, <1>3, <1>6, <1>7, OwnMoves DEF Goes, AnswersOwn

LEMMA OwnRetries ==
  ASSUME OwnInv, StoreInv', TypeInv', EffectsStand, NEW c \in Clients, UNCHANGED begun,
         NEW pc \in {"load", "purge_load"}, Retries(c, pc)
  PROVE  OwnInv' /\ \A d \in Clients : AnswersOwn(d)
<1>1. PICK k : k = [call[c] EXCEPT !.pc = pc, !.tries = @ + 1, !.loaded = <<>>, !.seen = 0]
  OBVIOUS
<1>2. k.pc = pc
  BY <1>1 DEF OwnInv, StoreInv, CallDecided, IsCall
<1> QED BY <1>1, <1>2, OwnGoes, OwnSaid DEF Retries

LEMMA OwnTo ==
  ASSUME OwnInv, StoreInv', TypeInv', EffectsStand, NEW c \in Clients, UNCHANGED begun,
         NEW pc \in {"load", "take", "purge_load"}, NEW k, k.pc = To(c, pc).pc, Goes(c, k)
  PROVE  OwnInv' /\ \A d \in Clients : AnswersOwn(d)
<1>1. To(c, pc).pc = pc
  BY DEF OwnInv, StoreInv, CallDecided, IsCall, To
<1> QED BY <1>1, OwnGoes

LEMMA OwnAdding ==
  ASSUME OwnInv, StoreInv', TypeInv', EffectsStand, NEW c \in Clients, UNCHANGED begun,
         NEW n, Adding(c, n)
  PROVE  OwnInv' /\ \A d \in Clients : AnswersOwn(d)
<1>1. PICK h : Goes(c, [To(c, "load") EXCEPT !.harp = h, !.probe = n])
  BY DEF Adding
<1>2. [To(c, "load") EXCEPT !.harp = h, !.probe = n].pc = "load"
  BY DEF OwnInv, StoreInv, CallDecided, IsCall, To
<1> QED BY <1>1, <1>2, OwnGoes

\* A stream that holds a command holds a task.
LEMMA OwnTask ==
  ASSUME TypeInv, NEW h \in Harps, NEW id, Caused(streams[h], id)
  PROVE  Folded(streams[h]).harp_id # Empty
<1>1. streams[h] # <<>>
  BY NoStream DEF Caused
<1> QED BY <1>1 DEF TypeInv, TypedStream, WholeTask

LEMMA NextOwn == OwnInv /\ [Next]_vars => OwnInv' /\ \A d \in Clients : AnswersOwn(d)
<1> SUFFICES ASSUME OwnInv, [Next]_vars PROVE OwnInv' /\ \A d \in Clients : AnswersOwn(d)
  OBVIOUS
<1>0. StoreInv' /\ TypeInv'
  BY NextWhole, NextTyped DEF OwnInv
<1>i. \A c \in Clients : IsCall(call[c]) /\ CallDecided(call[c]) /\ CallTyped(call[c], begun[c])
  BY DEF OwnInv, TypeInv, StoreInv, CallDecided
<1>s. ASSUME UNCHANGED <<streams, purges>> PROVE EffectsStand
  BY <1>s DEF EffectsStand
<1>1. CASE UNCHANGED vars
  <2>1. \A d \in Clients : CommandId(d)' = CommandId(d)
    BY <1>1 DEF vars, CommandId
  <2>2. \A d \in Clients : AnswersOwn(d)
    BY <1>1 DEF vars, AnswersOwn, OwnInv, OwnThere
  <2> QED BY <1>0, <1>1, <2>1, <2>2 DEF vars, OwnInv, OwnThere
<1>2. ASSUME NEW c \in Clients, NEW r \in Sends[c], Begin(c, r)
      PROVE  OwnInv' /\ \A d \in Clients : AnswersOwn(d)
  <2>1. PICK k : Goes(c, k) /\ k.pc \in {"list", "load", "look"}
    BY <1>2, Begun
  <2>2. EffectsStand /\ \A d \in Clients : d # c => begun'[d] = begun[d]
    BY <1>2, <1>s DEF Begin, OwnInv, TypeInv
  <2> QED BY <1>0, <2>1, <2>2, OwnGoes
<1>3. ASSUME NEW c \in Clients, Look(c)
      PROVE  OwnInv' /\ \A d \in Clients : AnswersOwn(d)
  <2>1. UNCHANGED <<streams, purges, begun>> /\ call[c].pc = "look" /\ EffectsStand
    BY <1>3, <1>s DEF Look
  <2>2. call[c].harp \in Harps
    BY <1>i, <2>1 DEF CallTyped
  <2>3. CASE Caused(Held(c), CommandId(c)) /\ Goes(c, FoundOwn(c))
    BY <1>0, <2>1, <2>2, <2>3, OwnFound
  <2>4. ASSUME NEW h, NEW n, Goes(c, [call[c] EXCEPT !.harp = h, !.probe = n])
        PROVE  OwnInv' /\ \A d \in Clients : AnswersOwn(d)
    <3>1. PICK k : k = [call[c] EXCEPT !.harp = h, !.probe = n]
      OBVIOUS
    <3>2. k.pc = "look"
      BY <1>i, <2>1, <3>1 DEF IsCall
    <3> QED BY <1>0, <2>1, <2>4, <3>1, <3>2, OwnGoes
  <2>5. CASE Adding(c, 1)
    BY <1>0, <2>1, <2>5, OwnAdding
  <2> QED BY <1>3, <2>3, <2>4, <2>5 DEF Look
<1>4. ASSUME NEW c \in Clients, ReadOwn(c)
      PROVE  OwnInv' /\ \A d \in Clients : AnswersOwn(d)
  <2> DEFINE h == call[c].harp
  <2>1. UNCHANGED <<streams, purges, begun>> /\ call[c].pc = "own" /\ EffectsStand
    BY <1>4, <1>s DEF ReadOwn
  <2>2. /\ h \in Harps /\ call[c].seen \in Nat /\ purges[h] \in Nat
        /\ call[c].seen <= purges[h]
        /\ call[c].seen = purges[h] => Caused(streams[h], CommandId(c))
    BY <1>i, <2>1 DEF CallTyped, OwnInv, OwnThere, TypeInv
  <2>3. PurgedSinceSeen(c) \/ Caused(streams[h], CommandId(c))
    BY <2>2 DEF PurgedSinceSeen
  <2>4. CASE Folded(Held(c)).harp_id = Empty /\ Ends(c, Said("vanished"))
    <3>1. PurgedSinceSeen(c)
      BY <2>2, <2>3, <2>4, OwnTask DEF Held, OwnInv
    <3>2. Said("vanished").kind = "vanished"
      BY DEF Said, Answer
    <3> QED BY <1>0, <2>1, <2>4, <3>1, <3>2, OwnEnds
  <2>5. CASE Ends(c, Answer("task", h))
    <3>1. Answer("task", h).kind = "task" /\ Answer("task", h).harp = h
      BY DEF Answer
    <3> QED BY <1>0, <2>1, <2>3, <2>5, <3>1, OwnEnds
  <2> QED BY <1>4, <2>4, <2>5 DEF ReadOwn
<1>5. ASSUME NEW c \in Clients, Load(c)
      PROVE  OwnInv' /\ \A d \in Clients : AnswersOwn(d)
  <2> DEFINE held == Held(c)
             taken == held # <<>>
             d == Decide(Folded(held), taken, CommandOf(c))
  <2>1. UNCHANGED <<streams, purges, begun>> /\ call[c].pc = "load" /\ EffectsStand
    BY <1>5, <1>s DEF Load
  <2>2. call[c].harp \in Harps /\ call[c].request \in Requests
    BY <1>i, <2>1 DEF CallTyped
  <2>3. call[c].request.op = "add" => d # Unchanged
    <3>1. taken \in BOOLEAN /\ d = Decide(Folded(held), taken, CommandIn(call[c]))
      BY CommandDecided
    <3> HIDE DEF taken, held, d
    <3> QED BY <2>2, <3>1, DecidedFor
  <2>4. \/ Caused(held, CommandId(c)) /\ Goes(c, FoundOwn(c))
        \/ Goes(c, Reads(c, "append"))
        \/ call[c].request.op # "add" /\ Ends(c, Answer("task", call[c].harp))
        \/ \E n : Adding(c, n)
        \/ \E kind \in {"exhausted", "refused"} : Ends(c, Said(kind))
        \/ Retries(c, "load")
    BY <1>5, <2>3 DEF Load
  <2> HIDE DEF held, taken, d
  <2>5. CASE Caused(held, CommandId(c)) /\ Goes(c, FoundOwn(c))
    BY <1>0, <2>1, <2>2, <2>5, OwnFound DEF held
  <2>6. CASE Goes(c, Reads(c, "append"))
    <3>1. Reads(c, "append").pc = "append"
      BY ReadsFields DEF OwnInv
    <3> QED BY <1>0, <2>1, <2>6, <3>1, OwnGoes
  <2>7. CASE call[c].request.op # "add" /\ Ends(c, Answer("task", call[c].harp))
    BY <1>0, <2>1, <2>7, OwnEnds
  <2>8. CASE \E n : Adding(c, n)
    BY <1>0, <2>1, <2>8, OwnAdding
  <2>9. CASE \E kind \in {"exhausted", "refused"} : Ends(c, Said(kind))
    BY <1>0, <2>1, <2>9, OwnSaid
  <2>10. CASE Retries(c, "load")
    BY <1>0, <2>1, <2>10, OwnRetries
  <2> QED BY <2>4, <2>5, <2>6, <2>7, <2>8, <2>9, <2>10
<1>6. ASSUME NEW c \in Clients, Commit(c)
      PROVE  OwnInv' /\ \A d \in Clients : AnswersOwn(d)
  <2> DEFINE h == call[c].harp
  <2>1. PICK page :
          /\ page.command_id = CommandId(c)
          /\ call[c].pc = "append" /\ UNCHANGED <<purges, begun>>
          /\ \/ /\ streams' = [streams EXCEPT ![h] = Append(@, page)]
                /\ \/ Goes(c, To(c, "purge_load"))
                   \/ Ends(c, Answer("task", h))
                   \/ Retries(c, "load")
             \/ streams' = streams /\ Retries(c, "load")
    BY <1>6 DEF Commit
  <2>2. h \in Harps
    BY <1>i, <2>1 DEF CallTyped
  <2>3. ASSUME streams' = [streams EXCEPT ![h] = Append(@, page)]
        PROVE  EffectsStand /\ Caused(streams'[h], CommandId(c))
    <3> DEFINE s == streams[h]
               t == Append(s, page)
    <3>1. IsStream(s)
      BY <2>2 DEF OwnInv, StoreInv, StreamsWhole
    <3>2. /\ Len(s) \in Nat /\ DOMAIN s = 1..Len(s) /\ DOMAIN t = 1..(Len(s) + 1)
          /\ \A i \in 1..Len(s) : t[i] = s[i]
          /\ t[Len(s) + 1] = page
      BY <3>1, AppendedPage
    <3>3. \A g \in Harps : streams'[g] = IF g = h THEN t ELSE streams[g]
      BY <2>3 DEF OwnInv, StoreInv, StreamsWhole
    <3> HIDE DEF t
    <3>4. Len(s) + 1 \in DOMAIN t
      BY <3>2
    <3>5. Caused(t, CommandId(c))
      BY <2>1, <3>2, <3>4 DEF Caused
    <3>6. \A id : Caused(s, id) => Caused(t, id)
      BY <3>2 DEF Caused
    <3>7. EffectsStand
      BY <2>1, <3>3, <3>6 DEF EffectsStand
    <3> QED BY <2>2, <3>3, <3>5, <3>7
  <2>4. CASE streams' = streams /\ Retries(c, "load")
    BY <1>0, <1>s, <2>1, <2>4, OwnRetries
  <2>5. CASE /\ streams' = [streams EXCEPT ![h] = Append(@, page)]
             /\ Goes(c, To(c, "purge_load"))
    BY <1>0, <2>1, <2>3, <2>5, OwnTo
  <2>6. CASE /\ streams' = [streams EXCEPT ![h] = Append(@, page)]
             /\ Ends(c, Answer("task", h))
    <3>1. Answer("task", h).kind = "task" /\ Answer("task", h).harp = h
      BY DEF Answer
    <3> QED BY <1>0, <2>1, <2>3, <2>6, <3>1, OwnEnds
  <2>7. CASE streams' = [streams EXCEPT ![h] = Append(@, page)] /\ Retries(c, "load")
    BY <1>0, <2>1, <2>3, <2>7, OwnRetries
  <2> QED BY <2>1, <2>4, <2>5, <2>6, <2>7
<1>7. ASSUME NEW c \in Clients, LoadRemoval(c) \/ LoadPurge(c)
      PROVE  OwnInv' /\ \A d \in Clients : AnswersOwn(d)
  <2>1. UNCHANGED begun /\ EffectsStand
    BY <1>7, <1>s DEF LoadRemoval, LoadPurge
  <2>2. \/ \E pc \in {"take", "purge_load"} : Goes(c, To(c, pc))
        \/ \E pc \in {"append", "purge"} : Goes(c, Reads(c, pc))
        \/ \E pc \in {"load", "purge_load"} : Retries(c, pc)
    BY <1>7 DEF LoadRemoval, LoadPurge
  <2>3. ASSUME NEW pc \in {"append", "purge"}, Goes(c, Reads(c, pc))
        PROVE  OwnInv' /\ \A d \in Clients : AnswersOwn(d)
    <3>1. Reads(c, pc).pc = pc
      BY ReadsFields DEF OwnInv
    <3> QED BY <1>0, <2>1, <2>3, <3>1, OwnGoes
  <2> QED BY <1>0, <2>1, <2>2, <2>3, OwnTo, OwnRetries
<1>8. ASSUME NEW c \in Clients, List(c)
      PROVE  OwnInv' /\ \A d \in Clients : AnswersOwn(d)
  <2>1. UNCHANGED begun /\ EffectsStand
    BY <1>8, <1>s DEF List
  <2>2. PICK todo, left, found : Goes(c, [To(c, "take") EXCEPT !.todo = todo,
                                            !.unpurged = left, !.found = found])
    BY <1>8 DEF List
  <2>3. PICK k : k = [To(c, "take") EXCEPT !.todo = todo, !.unpurged = left, !.found = found]
    OBVIOUS
  <2>4. k.pc = "take"
    BY <1>i, <2>3 DEF IsCall, To
  <2> QED BY <1>0, <2>1, <2>2, <2>3, <2>4, OwnGoes
<1>9. ASSUME NEW c \in Clients, Take(c)
      PROVE  OwnInv' /\ \A d \in Clients : AnswersOwn(d)
  <2>1. UNCHANGED begun /\ EffectsStand
    BY <1>9, <1>s DEF Take
  <2>2. ASSUME NEW h, Goes(c, [To(c, "load") EXCEPT !.harp = h, !.todo = @ \ {h}])
        PROVE  OwnInv' /\ \A d \in Clients : AnswersOwn(d)
    <3>1. [To(c, "load") EXCEPT !.harp = h, !.todo = @ \ {h}].pc = "load"
      BY <1>i DEF IsCall, To
    <3> QED BY <1>0, <2>1, <2>2, <3>1, OwnGoes
  <2>3. ASSUME NEW h, Goes(c, [To(c, "purge_load") EXCEPT !.harp = h, !.unpurged = @ \ {h}])
        PROVE  OwnInv' /\ \A d \in Clients : AnswersOwn(d)
    <3>1. [To(c, "purge_load") EXCEPT !.harp = h, !.unpurged = @ \ {h}].pc = "purge_load"
      BY <1>i DEF IsCall, To
    <3> QED BY <1>0, <2>1, <2>3, <3>1, OwnGoes
  <2>4. CASE Ends(c, Said("pruned"))
    BY <1>0, <2>1, <2>4, OwnSaid
  <2> QED BY <1>9, <2>2, <2>3, <2>4 DEF Take
<1>10. ASSUME NEW c \in Clients, PurgeAt(c)
       PROVE  OwnInv' /\ \A d \in Clients : AnswersOwn(d)
  <2> DEFINE h == call[c].harp
  <2>1. /\ UNCHANGED begun /\ call[c].pc = "purge"
        /\ \/ /\ streams' = [streams EXCEPT ![h] = <<>>]
              /\ purges' = [purges EXCEPT ![h] = @ + 1]
           \/ UNCHANGED <<streams, purges>>
        /\ Goes(c, To(c, "take")) \/ Retries(c, "purge_load")
    BY <1>10 DEF PurgeAt
  <2>2. EffectsStand
    <3>1. CASE UNCHANGED <<streams, purges>>
      BY <1>s, <3>1
    <3>2. CASE /\ streams' = [streams EXCEPT ![h] = <<>>]
               /\ purges' = [purges EXCEPT ![h] = @ + 1]
      BY <3>2 DEF EffectsStand, OwnInv, TypeInv, StoreInv, StreamsWhole
    <3> QED BY <2>1, <3>1, <3>2
  <2> QED BY <1>0, <2>1, <2>2, OwnTo, OwnRetries
<1>11. ASSUME NEW c \in Clients, Fail(c)
       PROVE  OwnInv' /\ \A d \in Clients : AnswersOwn(d)
  <2>1. UNCHANGED begun /\ EffectsStand /\ Ends(c, Said("failed"))
    BY <1>11, <1>s DEF Fail
  <2> QED BY <1>0, <2>1, OwnSaid
<1> QED
  BY <1>1, <1>2, <1>3, <1>4, <1>5, <1>6, <1>7, <1>8, <1>9, <1>10, <1>11 DEF Next, Step

LEMMA InitOwn == Init => OwnInv
<1> SUFFICES ASSUME Init PROVE OwnInv
  OBVIOUS
<1>1. \A c \in Clients : OwnThere(call[c], CommandId(c))
  BY DEF Init, OwnThere, Idle, NoRequest
<1> QED BY <1>1, InitWhole, InitTyped DEF OwnInv

\* A keyed add is answered with its own task, whichever of its attempts added it,
\* and told it vanished only if it did: beside any prunes, unless one purged its
\* harp between the read that found the add and the one it is answered by
\* (add.rs, own_add and task_now).
THEOREM OwnAnswerEver == Spec => OwnAnswer
<1>1. OwnInv /\ [Next]_vars =>
        [\A c \in Clients :
           call[c].request.op = "add" /\ call[c].request.key # NoKey /\ call'[c].pc = "idle"
             => /\ answer'[c].kind = "task"
                     => \/ Caused(streams'[answer'[c].harp], CommandId(c))
                        \/ call[c].pc = "own" /\ PurgedSinceSeen(c)
                /\ answer'[c].kind = "vanished" => PurgedSinceSeen(c)]_vars
  BY NextOwn DEF AnswersOwn
<1> QED BY <1>1, InitOwn, NextOwn, PTL DEF Spec, OwnAnswer
=============================================================================
