------------------------ MODULE PointingWorker_proofs ------------------------
(***************************************************************************)
(* The star overlay's worker, for any number of starts and pointings, any  *)
(* settings and any queue lengths: the thread the window forgets is over,  *)
(* a stopped worker is silent though its timer may run on, the queue is    *)
(* never behind the subprocess, and the stars on the panels end up those   *)
(* of the settings made last.                                              *)
(***************************************************************************)
EXTENDS PointingWorker, StarCatalog_proofs, SequenceTheorems, TLAPS

Runs == loop \in {"running", "quitting"}

CallSet  == [name : {"start", "stop", "recompute"}] \cup [name : {"apply"}, with : Display]
EventSet == [name : {"start", "stop", "quit", "old"}] \cup [name : {"field"}, with : SUBSET Display]

Kinds ==
  /\ gui \in {"ready", "stopping", "closing", "exiting", "gone", "take", "compute", "join",
              "killed"}
  /\ active \in BOOLEAN /\ connected \in BOOLEAN /\ vpm \in BOOLEAN /\ blind \in BOOLEAN
  /\ querying \in BOOLEAN /\ starts \in Nat /\ strays \in Nat
  /\ label \in {"blank", "Stopped", "StopFailed", "Running", "Timeout"}
  /\ loop \in {"none", "running", "quitting", "ended"} /\ slot \in {"idle", "recompute"}
  /\ proc \in {"none", "dead", "query", "get", "put", "command"}

Contents ==
  /\ display \in Display /\ shown \in Display
  /\ drawn \in SUBSET Display /\ seen \in SUBSET Display
  /\ events \in Seq(EventSet) /\ calls \in Seq(CallSet)
  /\ row \in Int /\ queue \in Seq(Int)

Typed == Kinds /\ Contents

(* A worker out of the window's hands has no thread, and no connection by  *)
(* which its timer could still be heard.                                   *)
Stopped ==
  /\ ~Runs => slot = "idle"
  /\ NoLooseThread
  /\ connected = active
  /\ StoppedStaysStopped

(* Of the messages in s, which have a name: none is called n; at most one  *)
(* is; the last one called n carries d; a redraw comes after all settings. *)
Without(s, n) == \A k \in 1..Len(s) : s[k].name # n
Once(s, n) == \A j, k \in 1..Len(s) : s[j].name = n /\ s[k].name = n => j = k
LastIs(s, n, d) ==
  \E k \in 1..Len(s) :
    s[k].name = n /\ s[k].with = d /\ \A j \in k + 1..Len(s) : s[j].name # n
RedrawLast(s) ==
  \E k \in 1..Len(s) :
    s[k].name = "recompute" /\ \A j \in k + 1..Len(s) : s[j].name # "apply"

(* The start is on its way to the worker's thread, or back to the window,  *)
(* or done; before that nothing is in the queue.                           *)
StartedOnce ==
  /\ Once(calls, "start") /\ Once(events, "start")
  /\ Without(calls, "start") \/ Without(events, "start")
  /\ proc # "none" => Without(calls, "start") /\ Without(events, "start")
  /\ proc = "none" => queue = <<>>
  /\ QueueHoldsNewest

(* Once the worker has read its calls it has the settings made last.       *)
WillShow ==
  \/ Without(calls, "apply") /\ shown = display
  \/ LastIs(calls, "apply", display)

(* And the stars are drawn with them: a redraw is still to come, or in     *)
(* hand, or the last one under way is right, or else what is drawn, and    *)
(* what a poll has read so far, is right.                                  *)
DrawnLast ==
  \/ slot = "recompute"
  \/ LastIs(events, "field", {display})
  \/ /\ Without(events, "field") /\ drawn \in {{}, {display}}
     /\ gui = "compute" => seen = {display}
WillDraw == (Without(calls, "apply") /\ DrawnLast) \/ RedrawLast(calls)

Settles == Runs => WillShow /\ (~blind => WillDraw)

WorkerInv == Typed /\ Stopped /\ StartedOnce /\ Settles

-----------------------------------------------------------------------------

LEMMA DisplayFacts ==
  /\ \A stored \in Stored : Loaded(stored) \in Display
  /\ \A c \in Thresholds \cup {Default} : Normalised(c) \in Display
  BY DEF Display

LEMMA MessageFacts ==
  /\ Call("start") \in CallSet /\ Call("stop") \in CallSet /\ Call("recompute") \in CallSet
  /\ \A d \in Display : [name |-> "apply", with |-> d] \in CallSet
  /\ \A n \in {"start", "stop", "quit", "old"} : Call(n) \in EventSet /\ Call(n).name = n
  /\ \A d \in SUBSET Display : [name |-> "field", with |-> d] \in EventSet
  /\ \A c \in CallSet : c.name = "apply" => c.with \in Display
  /\ \A e \in EventSet : e.name = "field" => e.with \in SUBSET Display
  BY DEF Call, CallSet, EventSet

(* A sequence with its head taken off, or with another one behind it.      *)
LEMMA Shortened ==
  ASSUME NEW S, NEW s \in Seq(S), s # <<>>
  PROVE  /\ Head(s) = s[1] /\ Head(s) \in S /\ Tail(s) \in Seq(S)
         /\ Len(s) \in Nat \ {0} /\ Len(Tail(s)) = Len(s) - 1
         /\ \A k \in 1..Len(Tail(s)) : Tail(s)[k] = s[k + 1]
  BY HeadTailProperties, LenProperties

LEMMA Extended ==
  ASSUME NEW S, NEW s \in Seq(S), NEW t \in Seq(S)
  PROVE  /\ s \o t \in Seq(S) /\ Len(s) \in Nat /\ Len(t) \in Nat
         /\ Len(s \o t) = Len(s) + Len(t)
         /\ \A k \in 1..Len(s) : (s \o t)[k] = s[k]
         /\ \A k \in 1..Len(t) : (s \o t)[Len(s) + k] = t[k]
<1>1. s \o t \in Seq(S) /\ Len(s \o t) = Len(s) + Len(t)
  BY ConcatProperties
<1>2. Len(s) \in Nat /\ Len(t) \in Nat
  BY LenProperties
<1>3. \A k \in 1..Len(s) + Len(t) : (s \o t)[k] = IF k <= Len(s) THEN s[k] ELSE t[k - Len(s)]
  BY ConcatProperties
<1>4. QED
  BY <1>1, <1>2, <1>3

LEMMA Appended ==
  ASSUME NEW S, NEW s \in Seq(S), NEW e \in S
  PROVE  Append(s, e) \in Seq(S) /\ <<e>> \in Seq(S) /\ Append(s, e) = s \o <<e>>
  BY AppendProperties, AppendIsConcat

LEMMA InitTyped == Init => Typed
<1> SUFFICES ASSUME Init PROVE Typed
  OBVIOUS
<1>1. Kinds
  BY DEF Init, Kinds
<1>2. display \in Display /\ shown \in Display
  BY DisplayFacts DEF Init
<1>3. events \in Seq(EventSet) /\ calls \in Seq(CallSet) /\ queue \in Seq(Int) /\ row \in Int
  BY EmptySeq DEF Init
<1>4. drawn = {} /\ seen = {}
  BY DEF Init
<1>5. QED
  BY <1>1, <1>2, <1>3, <1>4 DEF Typed, Contents

LEMMA NextKinds == Kinds /\ [Next]_vars => Kinds'
<1> SUFFICES ASSUME Kinds, [Next]_vars PROVE Kinds'
  OBVIOUS
<1> USE DEF Kinds, link, shows, polling, thread, process
<1>1. CASE StartDb
  <2>1. strays' \in Nat
    BY <1>1 DEF StartDb
  <2>2. /\ UNCHANGED <<gui, label, vpm, blind>> /\ starts' = starts + 1
        /\ active' = TRUE /\ connected' = TRUE /\ querying' = FALSE
        /\ loop' = "running" /\ slot' = "idle" /\ proc' = "none"
    BY <1>1 DEF StartDb
  <2>3. active' \in BOOLEAN /\ connected' \in BOOLEAN /\ querying' \in BOOLEAN
    BY <2>2
  <2>4. vpm' \in BOOLEAN /\ blind' \in BOOLEAN
    BY <2>2
  <2>5. starts' \in Nat
    BY <2>2
  <2>6. QED
    BY <2>1, <2>2, <2>3, <2>4, <2>5
<1>2. CASE StopDb \/ CloseWindow
  BY <1>2 DEF StopDb, CloseWindow, Quit
<1>3. CASE ApplyStarDisplay
  BY <1>3 DEF ApplyStarDisplay
<1>4. CASE WindowWaits
  BY <1>4 DEF WindowWaits, WaitReturns, WaitTimesOut, CloseWaitEnds, Exit
<1>5. CASE HandleCall \/ Killing
  BY <1>5 DEF HandleCall, StartQuerying, StopQuerying, DrawRedraw, HandleOld, HandleQuit,
     Killing, JoinTimesOut, Joined
<1>6. CASE Poll \/ Polling
  BY <1>6 DEF Poll, PollEmpty, PollFinds, Polling, TakePointing, DrawPointing
<1>7. CASE DeliverCall \/ Recomputed \/ ThreadEnds
  BY <1>7 DEF DeliverCall, Relay, ApplySettings, Recompute, Recomputed, ThreadEnds
<1>8. CASE Query \/ Subprocess \/ Die
  BY <1>8 DEF Query, Subprocess, GetOld, Put, AwaitCommand, Die
<1>9. CASE UNCHANGED vars
  BY <1>9 DEF vars
<1>10. QED
  BY <1>1, <1>2, <1>3, <1>4, <1>5, <1>6, <1>7, <1>8, <1>9 DEF Next, Operator

(* What a step does to the calls queued for the window.                    *)
LEMMA EventsChange ==
  ASSUME Contents, [Next]_vars
  PROVE  \/ events' = events
         \/ StartDb /\ events' = [k \in 1..Len(events) |-> Call("old")]
         \/ (CloseWindow \/ CloseWaitEnds) /\ events' = Append(events, Call("quit"))
         \/ HandleCall /\ events # <<>> /\ events' = Tail(events)
         \/ Relay /\ \E n \in {"start", "stop"} :
                       Delivering(n) /\ events' = Append(events, Call(n))
         \/ Recomputed /\ events' = Append(events, [name |-> "field", with |-> {shown}])
<1> USE DEF link, shows, polling, thread, process
<1>1. CASE StartDb
  BY <1>1 DEF StartDb
<1>2. CASE StopDb \/ ApplyStarDisplay \/ CloseWindow
  BY <1>2 DEF StopDb, ApplyStarDisplay, CloseWindow
<1>3. CASE WindowWaits
  BY <1>3 DEF WindowWaits, WaitReturns, WaitTimesOut, CloseWaitEnds, Exit
<1>4. CASE HandleCall
  BY <1>4 DEF HandleCall, StartQuerying, StopQuerying, DrawRedraw, HandleOld, HandleQuit, Handling
<1>5. CASE Killing \/ Poll \/ Polling
  BY <1>5 DEF Killing, JoinTimesOut, Joined, Poll, PollEmpty, PollFinds, Polling, TakePointing,
     DrawPointing
<1>6. CASE DeliverCall
  BY <1>6 DEF DeliverCall, Relay, ApplySettings, Recompute
<1>7. CASE Recomputed \/ ThreadEnds
  BY <1>7 DEF Recomputed, ThreadEnds
<1>8. CASE Query \/ Subprocess \/ Die \/ UNCHANGED vars
  BY <1>8 DEF Query, Subprocess, GetOld, Put, AwaitCommand, Die, vars
<1>9. QED
  BY <1>1, <1>2, <1>3, <1>4, <1>5, <1>6, <1>7, <1>8 DEF Next, Operator

(* And to those queued for the worker's thread.                            *)
LEMMA CallsChange ==
  ASSUME Contents, [Next]_vars
  PROVE  \/ calls' = calls
         \/ StartDb /\ calls' = <<Call("start")>>
         \/ (StopDb \/ CloseWindow) /\ calls' = calls \o <<Call("stop")>>
         \/ ApplyStarDisplay /\ calls' = calls \o Redraw(display')
         \/ DeliverCall /\ calls # <<>> /\ calls' = Tail(calls)
         \/ ThreadEnds /\ calls' = <<>>
<1> USE DEF link, shows, polling, thread, process
<1>1. CASE StartDb
  BY <1>1 DEF StartDb
<1>2. CASE StopDb
  BY <1>2 DEF StopDb, Post
<1>3. CASE ApplyStarDisplay
  BY <1>3 DEF ApplyStarDisplay, Post
<1>4. CASE CloseWindow
  BY <1>4 DEF CloseWindow, Post
<1>5. CASE WindowWaits
  BY <1>5 DEF WindowWaits, WaitReturns, WaitTimesOut, CloseWaitEnds, Exit
<1>6. CASE HandleCall \/ Killing
  BY <1>6 DEF HandleCall, StartQuerying, StopQuerying, DrawRedraw, HandleOld, HandleQuit,
     Killing, JoinTimesOut, Joined
<1>7. CASE Poll \/ Polling
  BY <1>7 DEF Poll, PollEmpty, PollFinds, Polling, TakePointing, DrawPointing
<1>8. CASE DeliverCall
  BY <1>8 DEF DeliverCall, Relay, ApplySettings, Recompute, Delivering
<1>9. CASE Recomputed \/ ThreadEnds
  BY <1>9 DEF Recomputed, ThreadEnds
<1>10. CASE Query \/ Subprocess \/ Die \/ UNCHANGED vars
  BY <1>10 DEF Query, Subprocess, GetOld, Put, AwaitCommand, Die, vars
<1>11. QED
  BY <1>1, <1>2, <1>3, <1>4, <1>5, <1>6, <1>7, <1>8, <1>9, <1>10 DEF Next, Operator

(* What is in the window's and the worker's hands is of the displays the   *)
(* operator can reach.                                                     *)
LEMMA NextContents == Contents /\ [Next]_vars => Contents'
<1> SUFFICES ASSUME Contents, [Next]_vars PROVE Contents'
  OBVIOUS
<1> USE DEF link, shows, polling, thread, process
<1>1. display' \in Display
  <2>1. CASE ApplyStarDisplay
    BY <2>1, DisplayFacts DEF ApplyStarDisplay
  <2>2. CASE ~ApplyStarDisplay
    BY <2>2 DEF Next, vars, Contents, Operator, StartDb, StopDb, CloseWindow, WindowWaits,
       WaitReturns, WaitTimesOut, CloseWaitEnds, Exit, HandleCall, StartQuerying, StopQuerying,
       DrawRedraw, HandleOld, HandleQuit, Killing, JoinTimesOut, Joined, Poll, PollEmpty,
       PollFinds, Polling, TakePointing, DrawPointing, DeliverCall, Relay, ApplySettings,
       Recompute, Recomputed, ThreadEnds, Query, Subprocess, GetOld, Put, AwaitCommand, Die
  <2>3. QED
    BY <2>1, <2>2
<1>2. calls' \in Seq(CallSet)
  <2>1. Redraw(display') \in Seq(CallSet)
    <3>1. [name |-> "apply", with |-> display'] \in CallSet /\ Call("recompute") \in CallSet
      BY <1>1, MessageFacts
    <3>2. QED
      BY <3>1 DEF Redraw
  <2>2. <<Call("start")>> \in Seq(CallSet) /\ <<Call("stop")>> \in Seq(CallSet)
    BY MessageFacts, Appended, EmptySeq
  <2>3. calls # <<>> => Tail(calls) \in Seq(CallSet)
    BY Shortened DEF Contents
  <2>4. /\ calls \o Redraw(display') \in Seq(CallSet)
        /\ calls \o <<Call("stop")>> \in Seq(CallSet)
    BY <2>1, <2>2, Extended DEF Contents
  <2>5. QED
    BY <2>2, <2>3, <2>4, CallsChange, EmptySeq DEF Contents
<1>3. events' \in Seq(EventSet)
  <2>1. [k \in 1..Len(events) |-> Call("old")] \in Seq(EventSet)
    BY MessageFacts, LenProperties DEF Contents
  <2>2. \A n \in {"start", "stop", "quit"} : Append(events, Call(n)) \in Seq(EventSet)
    BY MessageFacts, Appended DEF Contents
  <2>3. Append(events, [name |-> "field", with |-> {shown}]) \in Seq(EventSet)
    BY MessageFacts, Appended DEF Contents
  <2>4. events # <<>> => Tail(events) \in Seq(EventSet)
    BY Shortened DEF Contents
  <2>5. QED
    BY <2>1, <2>2, <2>3, <2>4, EventsChange DEF Contents
<1>4. shown' \in Display /\ drawn' \in SUBSET Display /\ seen' \in SUBSET Display
  <2>1. CASE StartDb
    BY <2>1 DEF StartDb, Contents
  <2>2. CASE ApplySettings
    <3>1. Head(calls) \in CallSet /\ Head(calls).name = "apply"
      BY <2>2, Shortened DEF ApplySettings, Delivering, Contents
    <3>2. shown' \in Display
      BY <2>2, <3>1, MessageFacts DEF ApplySettings
    <3>3. QED
      BY <2>2, <3>2 DEF ApplySettings, Contents
  <2>3. CASE DrawRedraw
    <3>1. Head(events) \in EventSet /\ Head(events).name = "field"
      BY <2>3, Shortened DEF DrawRedraw, Handling, Contents
    <3>2. drawn' \in SUBSET Display
      BY <2>3, <3>1, MessageFacts DEF DrawRedraw, Contents
    <3>3. QED
      BY <2>3, <3>2 DEF DrawRedraw, Contents
  <2>4. CASE HandleOld \/ Polling
    BY <2>4 DEF HandleOld, Polling, TakePointing, DrawPointing, Contents
  <2>5. CASE ~(StartDb \/ ApplySettings \/ DrawRedraw \/ HandleOld \/ Polling)
    <3>1. UNCHANGED <<shown, drawn, seen>>
      BY <2>5 DEF Next, vars, Operator, ApplyStarDisplay, StopDb, CloseWindow, WindowWaits,
         WaitReturns, WaitTimesOut, CloseWaitEnds, Exit, HandleCall, StartQuerying, StopQuerying,
         HandleQuit, Killing, JoinTimesOut, Joined, Poll, PollEmpty, PollFinds, DeliverCall,
         Relay, Recompute, Recomputed, ThreadEnds, Query, Subprocess, GetOld, Put, AwaitCommand,
         Die
    <3>2. QED
      BY <3>1 DEF Contents
  <2>6. QED
    BY <2>1, <2>2, <2>3, <2>4, <2>5
<1>5. row' \in Int /\ queue' \in Seq(Int)
  <2>1. CASE StartDb \/ TakePointing
    <3>1. queue' = <<>> /\ (row' = 0 \/ row' = row)
      BY <2>1 DEF StartDb, TakePointing
    <3>2. QED
      BY <3>1, EmptySeq DEF Contents
  <2>2. CASE Query \/ Subprocess \/ Die
    <3>1. row' \in Int
      BY <2>2 DEF Query, Reading, Subprocess, GetOld, Put, AwaitCommand, Die, Contents
    <3>2. <<row>> \in Seq(Int)
      BY Appended, EmptySeq DEF Contents
    <3>3. queue' \in Seq(Int)
      BY <2>2, <3>2, EmptySeq DEF Query, Subprocess, GetOld, Put, AwaitCommand, Die, Contents
    <3>4. QED
      BY <3>1, <3>3
  <2>3. CASE ~(StartDb \/ TakePointing \/ Query \/ Subprocess \/ Die)
    <3>1. UNCHANGED <<row, queue>>
      BY <2>3 DEF Next, vars, Operator, ApplyStarDisplay, StopDb, CloseWindow, WindowWaits,
         WaitReturns, WaitTimesOut, CloseWaitEnds, Exit, HandleCall, StartQuerying, StopQuerying,
         DrawRedraw, HandleOld, HandleQuit, Killing, JoinTimesOut, Joined, Poll, PollEmpty,
         PollFinds, Polling, DrawPointing, DeliverCall, Relay, ApplySettings, Recompute,
         Recomputed, ThreadEnds
    <3>2. QED
      BY <3>1 DEF Contents
  <2>4. QED
    BY <2>1, <2>2, <2>3
<1>6. QED
  BY <1>1, <1>2, <1>3, <1>4, <1>5 DEF Contents

-----------------------------------------------------------------------------
(* Lists of messages *)

LEMMA BehindHead ==
  ASSUME NEW S, NEW s \in Seq(S), s # <<>>, NEW n, NEW d
  PROVE  /\ Without(s, n) => Without(Tail(s), n) /\ Head(s).name # n
         /\ LastIs(s, n, d) => \/ LastIs(Tail(s), n, d)
                               \/ Head(s).name = n /\ Head(s).with = d /\ Without(Tail(s), n)
         /\ RedrawLast(s) => \/ RedrawLast(Tail(s))
                             \/ Head(s).name = "recompute" /\ Without(Tail(s), "apply")
<1> DEFINE t == Tail(s)
<1>1. /\ Head(s) = s[1] /\ Len(s) \in Nat \ {0} /\ Len(t) = Len(s) - 1
      /\ \A k \in 1..Len(t) : t[k] = s[k + 1]
  BY Shortened
<1> HIDE DEF t
<1>2. \A k \in 2..Len(s) : k - 1 \in 1..Len(t) /\ s[k] = t[k - 1]
  BY <1>1
<1>3. Without(s, n) => Without(t, n) /\ Head(s).name # n
  BY <1>1 DEF Without
<1>4. ASSUME NEW k \in 2..Len(s), NEW m, \A j \in k + 1..Len(s) : s[j].name # m
      PROVE  \A j \in (k - 1) + 1..Len(t) : t[j].name # m
  BY <1>1, <1>4
<1>5. ASSUME NEW m, \A j \in 1 + 1..Len(s) : s[j].name # m
      PROVE  Without(t, m)
  BY <1>1, <1>5 DEF Without
<1>6. ASSUME LastIs(s, n, d)
      PROVE  LastIs(t, n, d) \/ (Head(s).name = n /\ Head(s).with = d /\ Without(t, n))
  <2>1. PICK k \in 1..Len(s) :
          s[k].name = n /\ s[k].with = d /\ \A j \in k + 1..Len(s) : s[j].name # n
    BY <1>6 DEF LastIs
  <2>2. CASE k = 1
    BY <1>1, <1>5, <2>1, <2>2
  <2>3. CASE k # 1
    <3>1. k \in 2..Len(s) /\ k - 1 \in 1..Len(t)
      BY <1>1, <2>3
    <3>2. t[k - 1].name = n /\ t[k - 1].with = d
      BY <1>2, <2>1, <3>1
    <3>3. \A j \in (k - 1) + 1..Len(t) : t[j].name # n
      BY <1>4, <2>1, <3>1
    <3>4. QED
      BY <3>1, <3>2, <3>3 DEF LastIs
  <2>4. QED
    BY <2>2, <2>3
<1>7. ASSUME RedrawLast(s)
      PROVE  RedrawLast(t) \/ (Head(s).name = "recompute" /\ Without(t, "apply"))
  <2>1. PICK k \in 1..Len(s) :
          s[k].name = "recompute" /\ \A j \in k + 1..Len(s) : s[j].name # "apply"
    BY <1>7 DEF RedrawLast
  <2>2. CASE k = 1
    BY <1>1, <1>5, <2>1, <2>2
  <2>3. CASE k # 1
    <3>1. k \in 2..Len(s) /\ k - 1 \in 1..Len(t)
      BY <1>1, <2>3
    <3>2. t[k - 1].name = "recompute"
      BY <1>2, <2>1, <3>1
    <3>3. \A j \in (k - 1) + 1..Len(t) : t[j].name # "apply"
      BY <1>4, <2>1, <3>1
    <3>4. QED
      BY <3>1, <3>2, <3>3 DEF RedrawLast
  <2>4. QED
    BY <2>2, <2>3
<1>8. QED
  BY <1>3, <1>6, <1>7 DEF t

LEMMA Behind ==
  ASSUME NEW S, NEW s \in Seq(S), NEW t \in Seq(S), NEW n, NEW d
  PROVE  /\ Without(s, n) /\ Without(t, n) => Without(s \o t, n)
         /\ LastIs(t, n, d) => LastIs(s \o t, n, d)
         /\ LastIs(s, n, d) /\ Without(t, n) => LastIs(s \o t, n, d)
         /\ RedrawLast(t) => RedrawLast(s \o t)
         /\ RedrawLast(s) /\ Without(t, "apply") => RedrawLast(s \o t)
<1> DEFINE u == s \o t
           a == Len(s)
           b == Len(t)
<1>1. /\ a \in Nat /\ b \in Nat /\ Len(u) = a + b
      /\ \A k \in 1..a : u[k] = s[k]
      /\ \A k \in 1..b : u[a + k] = t[k]
  BY Extended
<1> HIDE DEF u
<1>2. \A k \in 1..Len(u) : k \in 1..a \/ (k - a \in 1..b /\ u[k] = t[k - a])
  <2> SUFFICES ASSUME NEW k \in 1..Len(u), k \notin 1..a
               PROVE  k - a \in 1..b /\ u[k] = t[k - a]
    OBVIOUS
  <2>1. k - a \in 1..b /\ a + (k - a) = k
    BY <1>1
  <2>2. u[a + (k - a)] = t[k - a]
    BY <1>1, <2>1
  <2>3. QED
    BY <2>1, <2>2
<1>3. Without(s, n) /\ Without(t, n) => Without(u, n)
  BY <1>1, <1>2 DEF Without
<1>4. ASSUME NEW k \in 1..a, NEW m, \A j \in k + 1..a : s[j].name # m, Without(t, m)
      PROVE  \A j \in k + 1..Len(u) : u[j].name # m
  <2> SUFFICES ASSUME NEW j \in k + 1..Len(u) PROVE u[j].name # m
    OBVIOUS
  <2>1. CASE j \in 1..a
    BY <1>1, <1>4, <2>1
  <2>2. CASE j \notin 1..a
    <3>1. j \in 1..Len(u)
      BY <1>1
    <3>2. QED
      BY <1>2, <1>4, <2>2, <3>1 DEF Without
  <2>3. QED
    BY <2>1, <2>2
<1>5. ASSUME NEW k \in 1..b, NEW m, \A j \in k + 1..b : t[j].name # m
      PROVE  \A j \in (a + k) + 1..Len(u) : u[j].name # m
  <2> SUFFICES ASSUME NEW j \in (a + k) + 1..Len(u) PROVE u[j].name # m
    OBVIOUS
  <2>1. j \in 1..Len(u) /\ j \notin 1..a
    BY <1>1
  <2>2. j - a \in k + 1..b /\ u[j] = t[j - a]
    BY <1>1, <1>2, <2>1
  <2>3. QED
    BY <1>5, <2>2
<1>6. \A k \in 1..b : a + k \in 1..Len(u)
  BY <1>1
<1>7. \A k \in 1..a : k \in 1..Len(u)
  BY <1>1
<1>8. ASSUME LastIs(t, n, d) PROVE LastIs(u, n, d)
  <2>1. PICK k \in 1..b :
          t[k].name = n /\ t[k].with = d /\ \A j \in k + 1..b : t[j].name # n
    BY <1>8 DEF LastIs
  <2>2. \A j \in (a + k) + 1..Len(u) : u[j].name # n
    BY <1>5, <2>1
  <2>3. u[a + k].name = n /\ u[a + k].with = d /\ a + k \in 1..Len(u)
    BY <1>1, <1>6, <2>1
  <2>4. QED
    BY <2>2, <2>3 DEF LastIs
<1>9. ASSUME LastIs(s, n, d), Without(t, n) PROVE LastIs(u, n, d)
  <2>1. PICK k \in 1..a :
          s[k].name = n /\ s[k].with = d /\ \A j \in k + 1..a : s[j].name # n
    BY <1>9 DEF LastIs
  <2>2. \A j \in k + 1..Len(u) : u[j].name # n
    BY <1>4, <1>9, <2>1
  <2>3. u[k].name = n /\ u[k].with = d /\ k \in 1..Len(u)
    BY <1>1, <1>7, <2>1
  <2>4. QED
    BY <2>2, <2>3 DEF LastIs
<1>10. ASSUME RedrawLast(t) PROVE RedrawLast(u)
  <2>1. PICK k \in 1..b :
          t[k].name = "recompute" /\ \A j \in k + 1..b : t[j].name # "apply"
    BY <1>10 DEF RedrawLast
  <2>2. \A j \in (a + k) + 1..Len(u) : u[j].name # "apply"
    BY <1>5, <2>1
  <2>3. u[a + k].name = "recompute" /\ a + k \in 1..Len(u)
    BY <1>1, <1>6, <2>1
  <2>4. QED
    BY <2>2, <2>3 DEF RedrawLast
<1>11. ASSUME RedrawLast(s), Without(t, "apply") PROVE RedrawLast(u)
  <2>1. PICK k \in 1..a :
          s[k].name = "recompute" /\ \A j \in k + 1..a : s[j].name # "apply"
    BY <1>11 DEF RedrawLast
  <2>2. \A j \in k + 1..Len(u) : u[j].name # "apply"
    BY <1>4, <1>11, <2>1
  <2>3. u[k].name = "recompute" /\ k \in 1..Len(u)
    BY <1>1, <1>7, <2>1
  <2>4. QED
    BY <2>2, <2>3 DEF RedrawLast
<1>12. QED
  BY <1>3, <1>8, <1>9, <1>10, <1>11 DEF u

(* What applyStarDisplay asks for: the thresholds, then the redraw.        *)
LEMMA RedrawFacts ==
  ASSUME NEW d \in Display
  PROVE  /\ Redraw(d) \in Seq(CallSet)
         /\ Without(Redraw(d), "start")
         /\ LastIs(Redraw(d), "apply", d)
         /\ vpm => RedrawLast(Redraw(d))
<1> DEFINE set == <<[name |-> "apply", with |-> d]>>
           again == <<Call("recompute")>>
           rest == IF vpm THEN again ELSE <<>>
<1>1. [name |-> "apply", with |-> d] \in CallSet /\ Call("recompute") \in CallSet
  BY MessageFacts
<1>2. set \in Seq(CallSet) /\ again \in Seq(CallSet) /\ rest \in Seq(CallSet)
  BY <1>1, Appended, EmptySeq
<1>3. Without(set, "start") /\ LastIs(set, "apply", d)
  BY DEF Without, LastIs
<1>4. Without(rest, "start") /\ Without(rest, "apply") /\ (vpm => RedrawLast(rest))
  BY DEF Without, RedrawLast, Call
<1>5. Redraw(d) = set \o rest
  BY DEF Redraw
<1> HIDE DEF set, again, rest
<1>6. set \o rest \in Seq(CallSet)
  BY <1>2, Extended
<1>7. /\ Without(set \o rest, "start")
      /\ LastIs(set \o rest, "apply", d)
      /\ vpm => RedrawLast(set \o rest)
  BY <1>2, <1>3, <1>4, Behind
<1>8. QED
  BY <1>5, <1>6, <1>7

(* A message of which there is at most one.                                *)
LEMMA OnceFacts ==
  ASSUME NEW S, NEW s \in Seq(S), NEW n
  PROVE  /\ Without(s, n) => Once(s, n)
         /\ s # <<>> /\ Once(s, n) =>
              Once(Tail(s), n) /\ (Head(s).name = n => Without(Tail(s), n))
         /\ s # <<>> /\ Without(s, n) => Without(Tail(s), n) /\ Head(s).name # n
<1>1. Without(s, n) => Once(s, n)
  BY DEF Without, Once
<1>2. ASSUME s # <<>>, Once(s, n)
      PROVE  Once(Tail(s), n) /\ (Head(s).name = n => Without(Tail(s), n))
  <2>1. /\ Head(s) = s[1] /\ Len(s) \in Nat \ {0} /\ Len(Tail(s)) = Len(s) - 1
        /\ \A k \in 1..Len(Tail(s)) : Tail(s)[k] = s[k + 1]
    BY <1>2, Shortened
  <2>2. \A k \in 1..Len(Tail(s)) : k + 1 \in 1..Len(s) /\ k + 1 # 1 /\ 1 \in 1..Len(s)
    BY <2>1
  <2>3. Once(Tail(s), n)
    BY <1>2, <2>1, <2>2 DEF Once
  <2>4. Head(s).name = n => Without(Tail(s), n)
    BY <1>2, <2>1, <2>2 DEF Once, Without
  <2>5. QED
    BY <2>3, <2>4
<1>3. s # <<>> /\ Without(s, n) => Without(Tail(s), n) /\ Head(s).name # n
  BY BehindHead
<1>4. QED
  BY <1>1, <1>2, <1>3

LEMMA OnceBehind ==
  ASSUME NEW S, NEW s \in Seq(S), NEW t \in Seq(S), NEW n, Once(s, n), Without(t, n)
  PROVE  Once(s \o t, n)
<1>1. /\ Len(s) \in Nat /\ Len(t) \in Nat /\ Len(s \o t) = Len(s) + Len(t)
      /\ \A k \in 1..Len(s) : (s \o t)[k] = s[k]
      /\ \A k \in 1..Len(t) : (s \o t)[Len(s) + k] = t[k]
  BY Extended
<1>2. ASSUME NEW k \in 1..Len(s \o t), (s \o t)[k].name = n
      PROVE  k \in 1..Len(s) /\ s[k].name = n
  <2>1. CASE k \in 1..Len(s)
    BY <1>1, <1>2, <2>1
  <2>2. CASE k \notin 1..Len(s)
    <3>1. k - Len(s) \in 1..Len(t) /\ k = Len(s) + (k - Len(s))
      BY <1>1, <2>2
    <3>2. (s \o t)[k] = t[k - Len(s)]
      BY <1>1, <3>1
    <3>3. QED
      BY <1>2, <3>1, <3>2 DEF Without
  <2>3. QED
    BY <2>1, <2>2
<1>3. QED
  BY <1>2 DEF Once

(* One message more: the only one of its name, if there was none.          *)
LEMMA OneMore ==
  ASSUME NEW S, NEW s \in Seq(S), NEW e \in S, NEW n, NEW d
  PROVE  /\ e.name # n /\ Without(s, n) => Without(Append(s, e), n)
         /\ e.name # n /\ Once(s, n) => Once(Append(s, e), n)
         /\ Without(s, n) => Once(Append(s, e), n)
         /\ e.name # n /\ LastIs(s, n, d) => LastIs(Append(s, e), n, d)
         /\ e.name = n /\ e.with = d => LastIs(Append(s, e), n, d)
<1> DEFINE t == <<e>>
<1>1. t \in Seq(S) /\ Append(s, e) = s \o t
  BY Appended
<1>2. e.name # n => Without(t, n)
  BY DEF Without
<1>3. e.name = n /\ e.with = d => LastIs(t, n, d)
  BY DEF LastIs
<1>4. /\ Len(Append(s, e)) = Len(s) + 1 /\ Len(s) \in Nat
      /\ \A k \in 1..Len(s) : Append(s, e)[k] = s[k]
  BY AppendProperties, LenProperties
<1> HIDE DEF t
<1>5. e.name # n /\ Without(s, n) => Without(Append(s, e), n)
  BY <1>1, <1>2, Behind
<1>6. e.name # n /\ Once(s, n) => Once(Append(s, e), n)
  BY <1>1, <1>2, OnceBehind
<1>7. Without(s, n) => Once(Append(s, e), n)
  <2> SUFFICES ASSUME Without(s, n), NEW j \in 1..Len(Append(s, e)), NEW k \in 1..Len(Append(s, e)),
                      Append(s, e)[j].name = n, Append(s, e)[k].name = n
               PROVE  j = k
    BY DEF Once
  <2>1. j \notin 1..Len(s) /\ k \notin 1..Len(s)
    BY <1>4 DEF Without
  <2>2. QED
    BY <1>4, <2>1
<1>8. e.name # n /\ LastIs(s, n, d) => LastIs(Append(s, e), n, d)
  BY <1>1, <1>2, Behind
<1>9. e.name = n /\ e.with = d => LastIs(Append(s, e), n, d)
  BY <1>1, <1>3, Behind
<1>10. QED
  BY <1>5, <1>6, <1>7, <1>8, <1>9

LEMMA NothingOf ==
  ASSUME NEW n, NEW d
  PROVE  Without(<<>>, n) /\ ~LastIs(<<>>, n, d) /\ ~RedrawLast(<<>>)
  BY DEF Without, LastIs, RedrawLast

(* Calls left by an earlier worker. *)
LEMMA OldOnes ==
  ASSUME Contents, NEW n, n # "old", events' = [k \in 1..Len(events) |-> Call("old")]
  PROVE  Without(events', n)
  BY LenProperties DEF Contents, Without, Call

-----------------------------------------------------------------------------
(* The thread *)

LEMMA NextStopped == Kinds /\ Stopped /\ [Next]_vars => Stopped'
<1> SUFFICES ASSUME Kinds, Stopped, [Next]_vars PROVE Stopped'
  OBVIOUS
<1> USE DEF Kinds, Stopped, Runs, NoLooseThread, StoppedStaysStopped, link, shows, polling, thread,
            process
<1>1. CASE StartDb
  BY <1>1 DEF StartDb
<1>2. CASE StopDb
  BY <1>2 DEF StopDb, Quit
<1>3. CASE ApplyStarDisplay
  BY <1>3 DEF ApplyStarDisplay
<1>4. CASE CloseWindow
  BY <1>4 DEF CloseWindow, Quit
<1>5. CASE WindowWaits
  BY <1>5 DEF WindowWaits, WaitReturns, WaitTimesOut, CloseWaitEnds, Exit
<1>6. CASE HandleCall \/ Killing
  BY <1>6 DEF HandleCall, StartQuerying, StopQuerying, DrawRedraw, HandleOld, HandleQuit,
     Killing, JoinTimesOut, Joined
<1>7. CASE Poll \/ Polling
  BY <1>7 DEF Poll, PollEmpty, PollFinds, Polling, TakePointing, DrawPointing
<1>8. CASE DeliverCall
  BY <1>8 DEF DeliverCall, Relay, ApplySettings, Recompute, Delivering
<1>9. CASE Recomputed \/ ThreadEnds
  BY <1>9 DEF Recomputed, ThreadEnds
<1>10. CASE Query \/ Subprocess \/ Die
  BY <1>10 DEF Query, Subprocess, GetOld, Put, AwaitCommand, Die
<1>11. CASE UNCHANGED vars
  BY <1>11 DEF vars
<1>12. QED
  BY <1>1, <1>2, <1>3, <1>4, <1>5, <1>6, <1>7, <1>8, <1>9, <1>10, <1>11 DEF Next, Operator

(* Where the start is: the subprocess is started by its coming back.       *)
StartPlace ==
  /\ Once(calls, "start") /\ Once(events, "start")
  /\ Without(calls, "start") \/ Without(events, "start")
  /\ proc # "none" => Without(calls, "start") /\ Without(events, "start")

LEMMA NextStartPlace == Contents /\ StartPlace /\ [Next]_vars => StartPlace'
<1> SUFFICES ASSUME Contents, StartPlace, [Next]_vars PROVE StartPlace'
  OBVIOUS
<1> USE DEF link, shows, polling, thread, process
<1>1. calls \in Seq(CallSet) /\ events \in Seq(EventSet)
  BY DEF Contents
<1>2. ASSUME UNCHANGED events, calls' = calls \/ calls' = <<>>, proc' = "none" => proc = "none",
             proc = "none" => proc' = "none"
      PROVE  StartPlace'
  <2>1. Without(<<>>, "start") /\ Once(<<>>, "start")
    BY NothingOf DEF Once
  <2>2. QED
    BY <1>2, <2>1 DEF StartPlace
<1>3. CASE StartDb
  <2>1. calls' = <<Call("start")>> /\ proc' = "none"
    BY <1>3 DEF StartDb
  <2>2. Once(calls', "start")
    BY <2>1 DEF Once
  <2>3. Without(events', "start")
    BY <1>3, OldOnes DEF StartDb
  <2>4. Once(events', "start")
    BY <2>3 DEF Without, Once
  <2>5. QED
    BY <2>1, <2>2, <2>3, <2>4 DEF StartPlace
<1>4. ASSUME NEW cs \in Seq(CallSet), Without(cs, "start"), calls' = calls \o cs, UNCHANGED proc,
             events' = events \/ events' = Append(events, Call("quit"))
      PROVE  StartPlace'
  <2>1. /\ Once(calls', "start")
        /\ Without(calls, "start") => Without(calls', "start")
    BY <1>1, <1>4, OnceBehind, Behind DEF StartPlace
  <2>2. Call("quit") \in EventSet /\ Call("quit").name # "start"
    BY MessageFacts
  <2>3. /\ Once(events', "start")
        /\ Without(events, "start") => Without(events', "start")
    BY <1>1, <1>4, <2>2, OneMore DEF StartPlace
  <2>4. QED
    BY <1>4, <2>1, <2>3 DEF StartPlace
<1>5. ASSUME UNCHANGED <<calls, proc>>, events' = events \/ events' = Append(events, Call("quit"))
      PROVE  StartPlace'
  <2>1. Without(<<>>, "start") /\ <<>> \in Seq(CallSet) /\ calls \o <<>> = calls
    BY <1>1, NothingOf, EmptySeq, ConcatEmptySeq
  <2>2. QED
    BY <1>4, <1>5, <2>1
<1>6. CASE StopDb \/ CloseWindow
  <2>1. <<Call("stop")>> \in Seq(CallSet) /\ Without(<<Call("stop")>>, "start")
    <3>1. Call("stop") \in CallSet /\ Call("stop").name # "start"
      BY MessageFacts DEF Call
    <3>2. QED
      BY <3>1, Appended, EmptySeq DEF Without
  <2>2. /\ UNCHANGED proc
        /\ calls' = calls \/ calls' = calls \o <<Call("stop")>>
        /\ events' = events \/ events' = Append(events, Call("quit"))
    BY <1>6 DEF StopDb, CloseWindow, Post
  <2>3. QED
    BY <1>4, <1>5, <2>1, <2>2
<1>7. CASE ApplyStarDisplay
  <2>1. Redraw(display') \in Seq(CallSet) /\ Without(Redraw(display'), "start")
    BY RedrawFacts, NextContents DEF Contents
  <2>2. /\ UNCHANGED <<proc, events>>
        /\ calls' = calls \/ calls' = calls \o Redraw(display')
    BY <1>7 DEF ApplyStarDisplay, Post
  <2>3. QED
    BY <1>4, <1>5, <2>1, <2>2
<1>8. CASE WindowWaits
  BY <1>5, <1>8 DEF WindowWaits, WaitReturns, WaitTimesOut, CloseWaitEnds, Exit
<1>9. CASE HandleCall
  <2>1. events # <<>> /\ events' = Tail(events) /\ UNCHANGED calls
    BY <1>9 DEF HandleCall, StartQuerying, StopQuerying, DrawRedraw, HandleOld, HandleQuit, Handling
  <2>2. /\ Once(events', "start")
        /\ Without(events, "start") => Without(events', "start") /\ Head(events).name # "start"
        /\ Head(events).name = "start" => Without(events', "start")
    BY <1>1, <2>1, OnceFacts DEF StartPlace
  <2>3. CASE StartQuerying
    BY <2>1, <2>2, <2>3 DEF StartQuerying, Handling, StartPlace
  <2>4. CASE UNCHANGED proc
    BY <2>1, <2>2, <2>4 DEF StartPlace
  <2>5. QED
    BY <1>9, <2>3, <2>4 DEF HandleCall, StopQuerying, DrawRedraw, HandleOld, HandleQuit
<1>10. CASE DeliverCall
  <2>1. calls # <<>> /\ calls' = Tail(calls) /\ UNCHANGED proc
    BY <1>10 DEF DeliverCall, Relay, ApplySettings, Recompute, Delivering
  <2>2. /\ Once(calls', "start")
        /\ Without(calls, "start") => Without(calls', "start") /\ Head(calls).name # "start"
        /\ Head(calls).name = "start" => Without(calls', "start")
    BY <1>1, <2>1, OnceFacts DEF StartPlace
  <2>3. CASE Relay
    <3>1. PICK n \in {"start", "stop"} : Head(calls).name = n /\ events' = Append(events, Call(n))
      BY <2>3 DEF Relay, Delivering
    <3>2. Call(n) \in EventSet /\ Call(n).name = n
      BY <3>1, MessageFacts
    <3>3. CASE n = "start"
      <4>1. Without(events, "start") /\ proc = "none" /\ Without(calls', "start")
        BY <2>2, <3>1, <3>3 DEF StartPlace
      <4>2. Once(events', "start")
        BY <1>1, <3>1, <3>2, <4>1, OneMore
      <4>3. QED
        BY <2>1, <2>2, <4>1, <4>2 DEF StartPlace
    <3>4. CASE n = "stop"
      <4>1. Once(events', "start") /\ (Without(events, "start") => Without(events', "start"))
        BY <1>1, <3>1, <3>2, <3>4, OneMore DEF StartPlace
      <4>2. QED
        BY <2>1, <2>2, <4>1 DEF StartPlace
    <3>5. QED
      BY <3>3, <3>4
  <2>4. CASE ApplySettings \/ Recompute
    <3>1. UNCHANGED events
      BY <2>4 DEF ApplySettings, Recompute
    <3>2. QED
      BY <2>1, <2>2, <3>1 DEF StartPlace
  <2>5. QED
    BY <1>10, <2>3, <2>4 DEF DeliverCall
<1>11. CASE Recomputed
  <2>1. LET f == [name |-> "field", with |-> {shown}]
        IN  f \in EventSet /\ f.name # "start" /\ events' = Append(events, f)
    BY <1>11, MessageFacts DEF Recomputed, Contents
  <2>2. Once(events', "start") /\ (Without(events, "start") => Without(events', "start"))
    BY <1>1, <2>1, OneMore DEF StartPlace
  <2>3. QED
    BY <1>11, <2>2 DEF Recomputed, StartPlace
<1>12. CASE ThreadEnds
  BY <1>2, <1>12 DEF ThreadEnds
<1>13. CASE Query \/ Subprocess \/ Die
  BY <1>2, <1>13 DEF Query, Subprocess, GetOld, Put, AwaitCommand, Die, Alive
<1>14. CASE Killing \/ Poll \/ Polling \/ UNCHANGED vars
  BY <1>5, <1>14 DEF Killing, JoinTimesOut, Joined, Poll, PollEmpty, PollFinds, Polling,
     TakePointing, DrawPointing, vars
<1>15. QED
  BY <1>3, <1>6, <1>7, <1>8, <1>9, <1>10, <1>11, <1>12, <1>13, <1>14 DEF Next, Operator

LEMMA NextStartedOnce == Contents /\ StartedOnce /\ [Next]_vars => StartedOnce'
<1> SUFFICES ASSUME Contents, StartedOnce, [Next]_vars PROVE StartedOnce'
  OBVIOUS
<1> USE DEF link, shows, polling, thread, process
<1> DEFINE QueueRight == (proc = "none" => queue = <<>>) /\ QueueHoldsNewest
<1>1. StartPlace /\ QueueRight
  BY DEF StartedOnce, StartPlace
<1>2. StartPlace'
  BY <1>1, NextStartPlace
<1>3. QueueRight'
  <2>1. CASE UNCHANGED <<proc, queue, row>>
    BY <1>1, <2>1 DEF QueueHoldsNewest
  <2>2. CASE StartDb
    BY <2>2 DEF StartDb, QueueHoldsNewest
  <2>3. CASE HandleCall
    <3>1. CASE StartQuerying
      <4>1. ~Without(events, "start")
        <5>1. events # <<>> /\ Head(events).name = "start"
          BY <3>1 DEF StartQuerying, Handling
        <5>2. QED
          BY <5>1, OnceFacts DEF Contents
      <4>2. proc = "none" /\ queue' = <<>>
        BY <1>1, <3>1, <4>1 DEF StartPlace, StartQuerying
      <4>3. QED
        BY <3>1, <4>2 DEF StartQuerying, QueueHoldsNewest
    <3>2. CASE ~StartQuerying
      BY <2>1, <2>3, <3>2 DEF HandleCall, StopQuerying, DrawRedraw, HandleOld, HandleQuit
    <3>3. QED
      BY <3>1, <3>2
  <2>4. CASE Poll \/ Polling
    BY <1>1, <2>4 DEF Poll, PollEmpty, PollFinds, Polling, TakePointing, DrawPointing,
       QueueHoldsNewest
  <2>5. CASE Query \/ Subprocess \/ Die
    BY <1>1, <2>5 DEF Query, Subprocess, GetOld, Put, AwaitCommand, Die, Alive, QueueHoldsNewest
  <2>6. CASE StopDb \/ ApplyStarDisplay \/ CloseWindow \/ WindowWaits \/ Killing
    BY <2>1, <2>6 DEF StopDb, ApplyStarDisplay, CloseWindow, WindowWaits, WaitReturns, WaitTimesOut,
       CloseWaitEnds, Exit, Killing, JoinTimesOut, Joined
  <2>7. CASE DeliverCall \/ Recomputed \/ ThreadEnds \/ UNCHANGED vars
    BY <2>1, <2>7 DEF DeliverCall, Relay, ApplySettings, Recompute, Recomputed, ThreadEnds, vars
  <2>8. QED
    BY <2>2, <2>3, <2>4, <2>5, <2>6, <2>7 DEF Next, Operator
<1>4. QED
  BY <1>2, <1>3 DEF StartedOnce, StartPlace

-----------------------------------------------------------------------------
(* What is drawn *)

(* A call that brings no settings is of no account.                        *)
LEMMA OtherCall ==
  ASSUME Contents, NEW cs \in Seq(CallSet), Without(cs, "apply"), calls' = calls \o cs,
         UNCHANGED <<display, shown>>, DrawnLast => DrawnLast'
  PROVE  (WillShow => WillShow') /\ (WillDraw => WillDraw')
<1>1. /\ Without(calls, "apply") => Without(calls', "apply")
      /\ LastIs(calls, "apply", display) => LastIs(calls', "apply", display)
      /\ RedrawLast(calls) => RedrawLast(calls')
  BY Behind DEF Contents
<1>2. QED
  BY <1>1 DEF WillShow, WillDraw

(* The worker's thread reads its oldest call. *)
LEMMA CallsRead ==
  ASSUME Contents, calls # <<>>, calls' = Tail(calls), NEW d
  PROVE  /\ Without(calls, "apply") => Without(calls', "apply") /\ Head(calls).name # "apply"
         /\ LastIs(calls, "apply", d) =>
              \/ LastIs(calls', "apply", d)
              \/ Head(calls).name = "apply" /\ Head(calls).with = d /\ Without(calls', "apply")
         /\ RedrawLast(calls) =>
              RedrawLast(calls') \/ (Head(calls).name = "recompute" /\ Without(calls', "apply"))
  BY BehindHead DEF Contents

(* With no settings on their way, those the worker has are the last ones.  *)
LEMMA ShownLast == WillShow /\ Without(calls, "apply") => shown = display
  BY DEF WillShow, Without, LastIs

(* A start, a stop or a quit on its way to the window changes nothing of   *)
(* what is drawn in the end.                                               *)
LEMMA OtherEvent ==
  ASSUME Contents, NEW n \in {"start", "stop", "quit"}, events' = Append(events, Call(n)),
         UNCHANGED <<display, drawn, slot, seen>>, gui' = "compute" => gui = "compute", DrawnLast
  PROVE  DrawnLast'
<1>1. events \in Seq(EventSet) /\ Call(n) \in EventSet /\ Call(n).name # "field"
  BY MessageFacts DEF Contents
<1>2. /\ Without(events, "field") => Without(events', "field")
      /\ LastIs(events, "field", {display}) => LastIs(events', "field", {display})
  BY <1>1, OneMore
<1>3. QED
  BY <1>2 DEF DrawnLast

(* The window draws the oldest redraw under way, or handles another call.  *)
LEMMA Drawing ==
  ASSUME Contents, events # <<>>, events' = Tail(events), UNCHANGED <<display, slot>>,
         gui' # "compute", DrawnLast,
         \/ Head(events).name = "field" /\ drawn' = Head(events).with
         \/ Head(events).name # "field" /\ drawn' \in {{}, drawn}
  PROVE  DrawnLast'
<1>1. /\ Without(events, "field") =>
           Without(Tail(events), "field") /\ Head(events).name # "field"
      /\ LastIs(events, "field", {display}) =>
           \/ LastIs(Tail(events), "field", {display})
           \/ /\ Head(events).name = "field" /\ Head(events).with = {display}
              /\ Without(Tail(events), "field")
  BY BehindHead DEF Contents
<1>2. QED
  BY <1>1 DEF DrawnLast

LEMMA InitSettles == Init => Settles
  BY DEF Init, Settles, Runs

LEMMA NextSettles ==
  ASSUME Kinds, Contents, Stopped, Settles, [Next]_vars
  PROVE  Settles'
<1> SUFFICES ASSUME Runs' PROVE WillShow' /\ (~blind' => WillDraw')
  BY DEF Settles
<1> USE DEF link, shows, polling, thread, process
<1>1. ASSUME Runs, UNCHANGED <<calls, display, shown, blind>>,
             Without(calls, "apply") /\ shown = display /\ DrawnLast => DrawnLast'
      PROVE  WillShow' /\ (~blind' => WillDraw')
  <2>1. WillShow /\ (~blind => WillDraw)
    BY <1>1 DEF Settles
  <2>2. WillShow'
    BY <1>1, <2>1 DEF WillShow
  <2>3. WillDraw => WillDraw'
    BY <1>1, <2>1, ShownLast DEF WillDraw
  <2>4. QED
    BY <1>1, <2>1, <2>2, <2>3
<1>2. ASSUME UNCHANGED <<calls, events, display, drawn, shown, blind, loop, slot, seen>>,
             gui' = "compute" => gui = "compute"
      PROVE  WillShow' /\ (~blind' => WillDraw')
  <2>1. Runs
    BY <1>2 DEF Runs
  <2>2. DrawnLast => DrawnLast'
    BY <1>2 DEF DrawnLast
  <2>3. QED
    BY <1>1, <1>2, <2>1, <2>2
<1>3. CASE StartDb
  <2>1. /\ calls' = <<Call("start")>> /\ shown' = display /\ display' = display
        /\ drawn' = {} /\ gui' = "ready"
    BY <1>3 DEF StartDb
  <2>2. Without(calls', "apply")
    BY <2>1 DEF Without, Call
  <2>3. Without(events', "field")
    BY <1>3, OldOnes DEF StartDb
  <2>4. QED
    BY <2>1, <2>2, <2>3 DEF WillShow, WillDraw, DrawnLast
<1>4. CASE StopDb \/ CloseWindow
  <2>1. Runs /\ UNCHANGED <<display, drawn, shown, blind, slot, seen>> /\ gui' # "compute"
    BY <1>4 DEF StopDb, CloseWindow, Quit, Runs
  <2>2. events' = events \/ events' = Append(events, Call("quit"))
    BY <1>4 DEF StopDb, CloseWindow
  <2>3. DrawnLast => DrawnLast'
    <3>1. CASE events' = events
      BY <2>1, <3>1 DEF DrawnLast
    <3>2. CASE events' = Append(events, Call("quit"))
      BY <2>1, <3>2, OtherEvent
    <3>3. QED
      BY <2>2, <3>1, <3>2
  <2>4. calls' = calls \/ calls' = calls \o <<Call("stop")>>
    BY <1>4 DEF StopDb, CloseWindow, Post
  <2>5. <<Call("stop")>> \in Seq(CallSet) /\ Without(<<Call("stop")>>, "apply")
    <3>1. Call("stop") \in CallSet /\ Call("stop").name # "apply"
      BY MessageFacts DEF Call
    <3>2. QED
      BY <3>1, Appended, EmptySeq DEF Without
  <2>6. CASE calls' = calls
    BY <1>1, <2>1, <2>3, <2>6
  <2>7. CASE calls' = calls \o <<Call("stop")>>
    BY <2>1, <2>3, <2>5, <2>7, OtherCall DEF Settles
  <2>8. QED
    BY <2>4, <2>6, <2>7
<1>5. CASE ApplyStarDisplay
  <2>1. active /\ loop # "ended"
    BY <1>5 DEF ApplyStarDisplay, Stopped, NoLooseThread, Runs
  <2>2. calls' = calls \o Redraw(display') /\ blind' = ~vpm
    BY <1>5, <2>1 DEF ApplyStarDisplay, Post
  <2>3. display' \in Display /\ calls \in Seq(CallSet)
    BY NextContents DEF Contents
  <2>4. /\ Redraw(display') \in Seq(CallSet) /\ LastIs(Redraw(display'), "apply", display')
        /\ vpm => RedrawLast(Redraw(display'))
    BY <2>3, RedrawFacts
  <2>5. /\ LastIs(calls \o Redraw(display'), "apply", display')
        /\ vpm => RedrawLast(calls \o Redraw(display'))
    BY <2>3, <2>4, Behind
  <2>6. LastIs(calls', "apply", display') /\ (~blind' => RedrawLast(calls'))
    BY <2>2, <2>5
  <2>7. QED
    BY <2>6 DEF WillShow, WillDraw
<1>6. CASE WindowWaits
  <2>1. CASE WaitReturns
    BY <2>1 DEF WaitReturns, Runs
  <2>2. CASE WaitTimesOut \/ Exit
    BY <1>2, <2>2 DEF WaitTimesOut, Exit
  <2>3. CASE CloseWaitEnds
    <3>1. DrawnLast => DrawnLast'
      BY <2>3, OtherEvent DEF CloseWaitEnds
    <3>2. QED
      BY <1>1, <2>3, <3>1 DEF CloseWaitEnds, Runs
  <2>4. QED
    BY <1>6, <2>1, <2>2, <2>3 DEF WindowWaits
<1>7. CASE HandleCall
  <2>1. /\ events # <<>> /\ events' = Tail(events) /\ gui' # "compute" /\ Runs
        /\ UNCHANGED <<calls, display, shown, blind, slot>>
    BY <1>7 DEF HandleCall, StartQuerying, StopQuerying, DrawRedraw, HandleOld, HandleQuit,
       Handling, Runs
  <2>2. \/ Head(events).name = "field" /\ drawn' = Head(events).with
        \/ Head(events).name # "field" /\ drawn' \in {{}, drawn}
    <3>1. CASE DrawRedraw
      BY <2>1, <3>1 DEF DrawRedraw, Handling, Stopped, NoLooseThread, Runs
    <3>2. CASE ~DrawRedraw
      BY <1>7, <3>2 DEF HandleCall, StartQuerying, StopQuerying, HandleOld, HandleQuit, Handling
    <3>3. QED
      BY <3>1, <3>2
  <2>3. DrawnLast => DrawnLast'
    BY <2>1, <2>2, Drawing
  <2>4. QED
    BY <1>1, <2>1, <2>3
<1>8. CASE Killing \/ Poll
  BY <1>2, <1>8 DEF Killing, JoinTimesOut, Joined, Poll, PollEmpty, PollFinds
<1>9. CASE Polling
  <2>1. Runs /\ connected /\ UNCHANGED <<calls, events, display, shown, blind, slot>>
    BY <1>9 DEF Polling, TakePointing, DrawPointing, Runs, Stopped, NoLooseThread
  <2>2. shown = display /\ DrawnLast => DrawnLast'
    BY <1>9, <2>1 DEF DrawnLast, Polling, TakePointing, DrawPointing
  <2>3. QED
    BY <1>1, <2>1, <2>2
<1>10. CASE DeliverCall
  <2>1. /\ calls # <<>> /\ calls' = Tail(calls) /\ Runs
        /\ UNCHANGED <<gui, display, drawn, blind, loop>>
    BY <1>10 DEF DeliverCall, Relay, ApplySettings, Recompute, Delivering, Runs
  <2>2. WillShow /\ (~blind => WillDraw)
    BY <2>1 DEF Settles
  <2>3. CASE Relay
    <3>1. PICK n \in {"start", "stop"} : Head(calls).name = n /\ events' = Append(events, Call(n))
      BY <2>3 DEF Relay, Delivering
    <3>2. UNCHANGED <<shown, slot, seen>>
      BY <2>3 DEF Relay
    <3>3. DrawnLast => DrawnLast'
      BY <2>1, <3>1, <3>2, OtherEvent
    <3>4. QED
      BY <2>1, <2>2, <3>1, <3>2, <3>3, CallsRead DEF WillShow, WillDraw
  <2>4. CASE ApplySettings
    <3>1. Head(calls).name = "apply" /\ shown' = Head(calls).with
      BY <2>4 DEF ApplySettings, Delivering
    <3>2. QED
      BY <2>1, <2>2, <3>1, CallsRead DEF WillShow, WillDraw
  <2>5. CASE Recompute
    <3>1. Head(calls).name = "recompute" /\ slot' = "recompute" /\ UNCHANGED shown
      BY <2>5 DEF Recompute, Delivering
    <3>2. DrawnLast'
      BY <3>1 DEF DrawnLast
    <3>3. QED
      BY <2>1, <2>2, <3>1, <3>2, CallsRead DEF WillShow, WillDraw
  <2>6. QED
    BY <1>10, <2>3, <2>4, <2>5 DEF DeliverCall
<1>11. CASE Recomputed
  <2>1. slot = "recompute" /\ Runs /\ UNCHANGED <<calls, display, shown, blind>>
    BY <1>11 DEF Recomputed, Runs
  <2>2. LET f == [name |-> "field", with |-> {shown}]
        IN  /\ f \in EventSet /\ f.name = "field" /\ f.with = {shown}
            /\ events' = Append(events, f)
    BY <1>11, MessageFacts DEF Recomputed, Contents
  <2>3. LastIs(events', "field", {shown})
    BY <2>2, OneMore DEF Contents
  <2>4. shown = display => DrawnLast'
    BY <2>1, <2>3 DEF DrawnLast
  <2>5. QED
    BY <1>1, <2>1, <2>4
<1>12. CASE ThreadEnds
  BY <1>12 DEF ThreadEnds, Runs
<1>13. CASE Query \/ Subprocess \/ Die \/ UNCHANGED vars
  BY <1>2, <1>13 DEF Query, Subprocess, GetOld, Put, AwaitCommand, Die, vars
<1>14. QED
  BY <1>3, <1>4, <1>5, <1>6, <1>7, <1>8, <1>9, <1>10, <1>11, <1>12, <1>13 DEF Next, Operator

-----------------------------------------------------------------------------

(* The bookkeeping behind the theorems below. *)
THEOREM WorkerInvariant == Spec => []WorkerInv
<1>1. Init => WorkerInv
  <2> SUFFICES ASSUME Init PROVE WorkerInv
    OBVIOUS
  <2>1. calls = <<>> /\ events = <<>>
    BY DEF Init
  <2>2. StartedOnce
    BY <2>1, NothingOf DEF Init, StartedOnce, Once, QueueHoldsNewest
  <2>3. Stopped
    <3>1. active = FALSE /\ connected = FALSE /\ starts = 0 /\ loop = "none" /\ slot = "idle"
      BY DEF Init
    <3>2. ~(starts > 0)
      BY <3>1
    <3>3. connected = active
      BY <3>1
    <3>4. QED
      BY <3>1, <3>2, <3>3 DEF Stopped, Runs, NoLooseThread, StoppedStaysStopped
  <2>4. QED
    BY <2>2, <2>3, InitTyped, InitSettles DEF WorkerInv
<1>2. WorkerInv /\ [Next]_vars => WorkerInv'
  BY NextKinds, NextContents, NextStopped, NextStartedOnce, NextSettles DEF WorkerInv, Typed
<1>3. QED
  BY <1>1, <1>2, PTL DEF Spec

(* A thread that runs is one the window knows of. *)
THEOREM ThreadsKnown == Spec => []NoLooseThread
<1>1. WorkerInv => NoLooseThread
  BY DEF WorkerInv, Stopped
<1>2. QED
  BY <1>1, WorkerInvariant, PTL

(* The status line stays at Stopped, whatever a stopped worker's timer     *)
(* still finds before the stop comes back to the window.                   *)
THEOREM StopSilences == Spec => []StoppedStaysStopped
<1>1. WorkerInv => StoppedStaysStopped
  BY DEF WorkerInv, Stopped
<1>2. QED
  BY <1>1, WorkerInvariant, PTL

(* Between two rounds of the subprocess the queue holds the newest pointing*)
(* or nothing.                                                             *)
THEOREM QueueIsNewest == Spec => []QueueHoldsNewest
<1>1. WorkerInv => QueueHoldsNewest
  BY DEF WorkerInv, StartedOnce
<1>2. QED
  BY <1>1, WorkerInvariant, PTL

(* When all in flight has settled, the stars on the panels were chosen by  *)
(* the settings of the options window, whatever the polls of one thread    *)
(* read while the other replaced them, and in whatever order polls and     *)
(* redraws were drawn.                                                     *)
THEOREM DrawnAsSet == Spec => []DrawnWithDisplay
<1>1. WorkerInv => DrawnWithDisplay
  <2> SUFFICES ASSUME WorkerInv, Quiet, drawn # {}, ~blind PROVE drawn = {display}
    BY DEF DrawnWithDisplay
  <2>1. Settles /\ Runs /\ calls = <<>> /\ events = <<>> /\ slot = "idle"
    BY DEF WorkerInv, Quiet, Runs
  <2>2. DrawnLast
    BY <2>1, NothingOf DEF Settles, WillDraw
  <2>3. QED
    BY <2>1, <2>2, NothingOf DEF DrawnLast
<1>2. QED
  BY <1>1, WorkerInvariant, PTL

(* Whatever stars are on the panels, and whatever tables they came from,   *)
(* each text is a name of the star it stands at.                           *)
THEOREM OverlayNames == Spec => []PanelsNameTheirStars
<1>1. OverlayIsSound
  BY PointingAssumption, BuiltNames, UnbuiltNames, LostKeyIsNoticed DEF OverlayIsSound
<1>2. WorkerInv => PanelsNameTheirStars
  BY <1>1 DEF WorkerInv, Typed, Contents, PanelsNameTheirStars
<1>3. QED
  BY <1>2, WorkerInvariant, PTL
=============================================================================
