-------------------------- MODULE RfbSessionProofs --------------------------
(***************************************************************************)
(* Theorems about RfbSession, for every value of its constants: types,     *)
(* death, freshness, the screen, and that it implements SessionPromise.    *)
(***************************************************************************)
EXTENDS SessionRefinement, SequenceTheorems, TLAPS

-----------------------------------------------------------------------------
(* Typing.  TypeOK alone is not inductive: what the writer holds depends on  *)
(* where it is, and so does whether the read loop has a rect in hand.        *)

WriterHolds ==
    /\ wpc = "size" => wcmd \in [kind : {"request"}, incremental : BOOLEAN, from : Origin]
    /\ wpc = "write" => wcmd \in Message

ReaderHolds == rpc \in {"invalidate", "announce"} => update.rects # <<>>

TypeInv == TypeOK /\ WriterHolds /\ ReaderHolds

USE SessionAssumption DEF SessionAssumption

LEMMA AppendType ==
    ASSUME NEW S, NEW s \in Seq(S), NEW e \in S
    PROVE  Append(s, e) \in Seq(S)
  BY AppendProperties

LEMMA HeadTailType ==
    ASSUME NEW S, NEW s \in Seq(S), s # <<>>
    PROVE  Head(s) \in S /\ Tail(s) \in Seq(S)
  BY HeadTailProperties

LEMMA TypeInit == Init => TypeInv
  <1> SUFFICES ASSUME Init PROVE TypeInv
    OBVIOUS
  <1> USE DEF Init
  <1>1. commands \in Seq(Command)
    <2>1. LoopRequest \in Command
      BY DEF LoopRequest, Command, Origin
    <2>2. CASE Continuous
      BY <2>1, <2>2
    <2>3. CASE ~Continuous
      BY <2>3, EmptySeq
    <2> QED
      BY <2>2, <2>3
  <1>2. events \in Seq(Event) /\ c2s \in Seq(Message) /\ s2c \in Seq(ServerMessage)
    BY EmptySeq
  <1>3. fb \in Framebuffer
    BY DEF Framebuffer, Black
  <1>4. update \in Update
    BY EmptySeq DEF Update, NoUpdate
  <1>5. server \in Server
    BY EmptySeq DEF Server
  <1>6. call \in [Callers -> Call]
    BY DEF Call, NoCall, Op
  <1>7. dying \in [Actors -> Phases]
    BY DEF Actors, Phases
  <1>8. calls \in [Callers -> 0 .. MaxCalls] /\ changes \in 0 .. MaxChanges
          /\ notices \in 0 .. MaxNotices
    OBVIOUS
  <1>9. TypeOK
    BY <1>1, <1>2, <1>3, <1>4, <1>5, <1>6, <1>7, <1>8
    DEF TypeOK, WriterPoints, ReaderPoints
  <1> QED
    BY <1>9 DEF TypeInv, WriterHolds, ReaderHolds

LEMMA LenType ==
    ASSUME NEW S, NEW s \in Seq(S)
    PROVE  Len(s) \in Nat
  BY LenProperties

LEMMA NoUpdateType == NoUpdate \in Update
  BY EmptySeq DEF NoUpdate, Update

\* A step of one caller leaves the calls well typed.
LEMMA ProceedType ==
    ASSUME call \in [Callers -> Call], NEW c \in Callers
    PROVE  /\ \A p \in {"push", "wait", "frame"} :
                Proceed(c, p) => call' \in [Callers -> Call]
           /\ Return(c) => call' \in [Callers -> Call]
           /\ \A n \in Nat : call' = [call EXCEPT ![c].pos = n] => call' \in [Callers -> Call]
           /\ \A n \in Nat : call' = [call EXCEPT ![c].pc = "admit", ![c].floor = n]
                => call' \in [Callers -> Call]
  <1>1. ASSUME NEW p \in {"push", "wait", "frame"}, Proceed(c, p)
        PROVE  call' \in [Callers -> Call]
    <2>1. [call[c] EXCEPT !.pc = p] \in Call
      BY DEF Call
    <2>2. call' = [call EXCEPT ![c] = [call[c] EXCEPT !.pc = p]]
      BY <1>1 DEF Proceed
    <2> QED
      BY <2>1, <2>2
  <1>2. Return(c) => call' \in [Callers -> Call]
    <2>1. NoCall \in Call
      BY DEF NoCall, Call, Op
    <2> QED
      BY <2>1 DEF Return
  <1>3. ASSUME NEW n \in Nat, call' = [call EXCEPT ![c].pos = n]
        PROVE  call' \in [Callers -> Call]
    <2>1. [call[c] EXCEPT !.pos = n] \in Call
      BY DEF Call
    <2>2. call' = [call EXCEPT ![c] = [call[c] EXCEPT !.pos = n]]
      BY <1>3
    <2> QED
      BY <2>1, <2>2
  <1>4. ASSUME NEW n \in Nat, call' = [call EXCEPT ![c].pc = "admit", ![c].floor = n]
        PROVE  call' \in [Callers -> Call]
    <2>1. [call[c] EXCEPT !.pc = "admit", !.floor = n] \in Call
      BY DEF Call
    <2>2. call' = [call EXCEPT ![c] = [call[c] EXCEPT !.pc = "admit", !.floor = n]]
      BY <1>4
    <2> QED
      BY <2>1, <2>2
  <1> QED
    BY <1>1, <1>2, <1>3, <1>4

LEMMA TypeNext == TypeInv /\ [Next]_vars => TypeInv'
  <1> SUFFICES ASSUME TypeInv, [Next]_vars PROVE TypeInv'
    OBVIOUS
  <1> USE DEF TypeInv, TypeOK, WriterHolds, ReaderHolds,
          innerVars, lifeVars, screenVars, countVars, clientVars, writerVars,
          readerVars, callerVars, externalVars, wireVars, serverVars
  <1>1. ASSUME NEW a \in Actors, MarkDeadSwap(a) PROVE TypeInv'
    <2>1. dying' \in [Actors -> Phases] /\ connected' = FALSE
      <3>1. dying' = [dying EXCEPT ![a] = IF connected THEN "emit" ELSE "over"]
        BY <1>1 DEF MarkDeadSwap
      <3>2. dying \in [Actors -> Phases] /\ {"emit", "over"} \subseteq Phases
        BY DEF Phases
      <3>3. connected' = FALSE
        BY <1>1 DEF MarkDeadSwap
      <3> QED
        BY <3>1, <3>2, <3>3
    <2> QED
      BY <1>1, <2>1 DEF MarkDeadSwap
  <1>2. ASSUME NEW a \in Actors, MarkDeadEmit(a) PROVE TypeInv'
    <2>1. events' \in Seq(Event)
      BY <1>2, AppendType DEF MarkDeadEmit, Emit, Event
    <2>2. dying' \in [Actors -> Phases]
      BY <1>2 DEF MarkDeadEmit, Actors, Phases
    <2> QED
      BY <1>2, <2>1, <2>2 DEF MarkDeadEmit
  <1>3. ASSUME NEW a \in Actors, MarkDeadTell(a) PROVE TypeInv'
    BY <1>3 DEF MarkDeadTell, Actors, Phases
  <1>4. CASE Close
    BY <1>4 DEF Close, Actors, Phases
  <1>5. CASE WriterTakes
    <2>1. Head(commands) \in Command /\ Tail(commands) \in Seq(Command)
      BY <1>5, HeadTailType DEF WriterTakes
    <2>2. CASE Head(commands).kind = "request"
      <3>1. Head(commands) \in [kind : {"request"}, incremental : BOOLEAN, from : Origin]
        BY <2>1, <2>2 DEF Command
      <3>2. [Head(commands) EXCEPT !.incremental = @ /\ ~needsFull]
              \in [kind : {"request"}, incremental : BOOLEAN, from : Origin]
        BY <3>1
      <3>3. /\ wpc' = "size" /\ needsFull' = FALSE
            /\ wcmd' = [Head(commands) EXCEPT !.incremental = @ /\ ~needsFull]
        BY <1>5, <2>2 DEF WriterTakes
      <3>4. wcmd' \in [kind : {"request"}, incremental : BOOLEAN, from : Origin]
        BY <3>2, <3>3
      <3> QED
        BY <1>5, <2>1, <3>3, <3>4 DEF WriterTakes, WriterPoints, Command
    <2>3. CASE Head(commands).kind = "write"
      <3>1. wpc' = "write" /\ needsFull' = needsFull /\ wcmd' = Head(commands)
        BY <1>5, <2>3 DEF WriterTakes
      <3>2. wcmd' \in [kind : {"write"}]
        BY <2>1, <2>3, <3>1 DEF Command
      <3> QED
        BY <1>5, <2>1, <3>1, <3>2 DEF WriterTakes, WriterPoints, Message
    <2> QED
      BY <1>5, <2>2, <2>3 DEF WriterTakes
  <1>6. CASE WriterReadsSize
    BY <1>6 DEF WriterReadsSize, WriterPoints, Message, Request, Framebuffer
  <1>7. CASE WriterWrites
    <2>1. c2s' \in Seq(Message)
      <3>1. wcmd \in Message /\ (c2s' = Append(c2s, wcmd) \/ c2s' = c2s)
        BY <1>7 DEF WriterWrites
      <3>2. c2s \in Seq(Message)
        OBVIOUS
      <3>3. Append(c2s, wcmd) \in Seq(Message)
        BY <3>1, <3>2, AppendType
      <3> QED
        BY <3>1, <3>2, <3>3
    <2> QED
      BY <1>7, <2>1 DEF WriterWrites, WriterPoints
  <1>8. CASE WriterFails
    BY <1>8 DEF WriterFails, WriterPoints, Actors, Phases
  <1>9. CASE WriterStops
    BY <1>9 DEF WriterStops, WriterPoints
  <1>10. CASE WriterHalfCloses
    BY <1>10 DEF WriterHalfCloses, WriterPoints
  <1>11. CASE BeginUpdate
    <2>1. Head(s2c) \in ServerMessage /\ s2c' \in Seq(ServerMessage)
      BY <1>11, HeadTailType DEF BeginUpdate
    <2>2. Head(s2c).rects \in Seq(Rect)
      BY <1>11, <2>1 DEF BeginUpdate, ServerMessage
    <2>3. update' \in Update
      BY <1>11, <2>2 DEF BeginUpdate, Update, NoUpdate
    <2>4. updatesBegun' \in Nat /\ rpc' = "rects"
      <3>1. updatesBegun' = updatesBegun + 1 /\ rpc' = "rects"
        BY <1>11 DEF BeginUpdate
      <3>2. updatesBegun \in Nat
        OBVIOUS
      <3> QED
        BY <3>1, <3>2
    <2> QED
      BY <1>11, <2>1, <2>3, <2>4 DEF BeginUpdate, ReaderPoints
  <1>12. CASE PaintRect
    <2>1. Head(update.rects) \in Rect /\ Tail(update.rects) \in Seq(Rect)
      BY <1>12, HeadTailType DEF PaintRect, NextRectIs, Update
    <2>2. fb' \in Framebuffer
      BY <1>12, <2>1 DEF PaintRect, Framebuffer
    <2>3. update' \in Update
      BY <1>12, <2>1 DEF PaintRect, Update
    <2>4. rpc' = "rects"
      BY <1>12 DEF PaintRect, NextRectIs
    <2> QED
      BY <1>12, <2>2, <2>3, <2>4 DEF PaintRect
  <1>13. CASE ResizeRect
    <2>1. Head(update.rects) \in Rect /\ update.rects # <<>>
      BY <1>13, HeadTailType DEF ResizeRect, NextRectIs, Update
    <2>2. Head(update.rects).size \in Sizes
      BY <1>13, <2>1 DEF ResizeRect, NextRectIs, Rect
    <2>3. fb' \in Framebuffer
      BY <1>13, <2>2 DEF ResizeRect, Framebuffer, Black
    <2> QED
      BY <1>13, <2>1, <2>3 DEF ResizeRect, ReaderPoints
  <1>14. CASE ResizeInvalidates
    BY <1>14 DEF ResizeInvalidates, ReaderPoints
  <1>15. CASE ResizeAnnounces
    BY <1>15, HeadTailType, AppendType DEF ResizeAnnounces, Emit, Event, ReaderPoints, Update
  <1>16. CASE AnswerAll
    <2>1. update' \in Update /\ rpc' \in ReaderPoints \ {"invalidate", "announce"}
      BY <1>16, NoUpdateType DEF AnswerAll, AfterRequest, ReaderPoints
    <2> QED
      BY <1>16, <2>1 DEF AnswerAll
  <1>17. CASE ReaderAdmits
    <2>1. update' \in Update /\ rpc' \in ReaderPoints \ {"invalidate", "announce"}
      BY <1>17, NoUpdateType DEF ReaderAdmits, AfterRequest, ReaderPoints
    <2> QED
      BY <1>17, <2>1 DEF ReaderAdmits
  <1>18. CASE ReaderPushes
    <2>1. update' \in Update /\ rpc' \in ReaderPoints \ {"invalidate", "announce"}
      BY <1>18, NoUpdateType DEF ReaderPushes, AfterRequest, ReaderPoints
    <2>2. LoopRequest \in Command
      BY DEF LoopRequest, Command, Origin
    <2>3. commands' \in Seq(Command)
      BY <1>18, <2>2, AppendType DEF ReaderPushes, Enqueue
    <2> QED
      BY <1>18, <2>1, <2>3 DEF ReaderPushes
  <1>19. CASE NumberPaint
    BY <1>19 DEF NumberPaint, ReaderPoints
  <1>20. CASE MarkPainted
    BY <1>20 DEF MarkPainted, ReaderPoints
  <1>21. CASE PublishPainted
    <2>1. events' \in Seq(Event)
      BY <1>21, AppendType DEF PublishPainted, Emit, Event
    <2>2. update' \in Update /\ rpc' = "idle"
      BY <1>21, NoUpdateType DEF PublishPainted
    <2> QED
      BY <1>21, <2>1, <2>2 DEF PublishPainted, ReaderPoints
  <1>22. CASE ReadNotice
    <2>1. s2c' \in Seq(ServerMessage)
      BY <1>22, HeadTailType DEF ReadNotice
    <2>2. events' \in Seq(Event)
      BY <1>22, AppendType DEF ReadNotice, Emit, Event
    <2>3. lastCutText' \in Nat
      BY <1>22 DEF ReadNotice
    <2> QED
      BY <1>22, <2>1, <2>2, <2>3 DEF ReadNotice
  <1>23. CASE ReaderFails
    BY <1>23, EmptySeq DEF ReaderFails, ReaderPoints, NoUpdate, Update, Actors, Phases
  <1>24. CASE ReaderStops
    BY <1>24, EmptySeq DEF ReaderStops, ReaderPoints, NoUpdate, Update
  <1>25. ASSUME NEW c \in Callers, Begin(c) PROVE TypeInv'
    <2>1. Len(events) \in Nat /\ server.composed \in Nat
      BY LenType DEF Server
    <2>2. calls' \in [Callers -> 0 .. MaxCalls]
      <3>1. calls[c] + 1 \in 0 .. MaxCalls
        <4>1. calls[c] < MaxCalls
          BY <1>25 DEF Begin
        <4>2. calls[c] \in 0 .. MaxCalls
          OBVIOUS
        <4> QED
          BY <4>1, <4>2
      <3>2. calls' = [calls EXCEPT ![c] = calls[c] + 1]
        BY <1>25 DEF Begin
      <3> QED
        BY <3>1, <3>2
    <2>3. call' \in [Callers -> Call]
      <3>1. CASE call' = [call EXCEPT ![c].pc = "admit"]
        <4>1. [call[c] EXCEPT !.pc = "admit"] \in Call
          <5>1. call[c] \in Call
            OBVIOUS
          <5> QED
            BY <5>1 DEF Call
        <4>2. call' = [call EXCEPT ![c] = [call[c] EXCEPT !.pc = "admit"]]
          BY <3>1
        <4> QED
          BY <4>1, <4>2
      <3>2. ASSUME NEW o \in Ops \ {"input"},
                   call' = [call EXCEPT ![c] =
                       [NoCall EXCEPT !.pc = "floor", !.op = o, !.pos = Len(events),
                          !.begun = updatesBegun, !.composed = server.composed]]
            PROVE  call' \in [Callers -> Call]
        <4>1. [NoCall EXCEPT !.pc = "floor", !.op = o, !.pos = Len(events),
                 !.begun = updatesBegun, !.composed = server.composed] \in Call
          BY <2>1 DEF NoCall, Call, Op
        <4> QED
          BY <3>2, <4>1
      <3> QED
        <4>1. \/ call' = [call EXCEPT ![c].pc = "admit"]
              \/ \E o \in Ops \ {"input"} :
                   call' = [call EXCEPT ![c] =
                       [NoCall EXCEPT !.pc = "floor", !.op = o, !.pos = Len(events),
                          !.begun = updatesBegun, !.composed = server.composed]]
          BY <1>25 DEF Begin
        <4> QED
          BY <3>1, <3>2, <4>1
    <2> QED
      BY <1>25, <2>2, <2>3 DEF Begin
  <1>26. ASSUME NEW c \in Callers, LoadFloor(c) PROVE TypeInv'
    <2>1. call' \in [Callers -> Call]
      <3>1. call' = [call EXCEPT ![c].pc = "admit", ![c].floor = updatesBegun]
        BY <1>26 DEF LoadFloor
      <3>2. updatesBegun \in Nat /\ call \in [Callers -> Call]
        OBVIOUS
      <3> QED
        BY <3>1, <3>2, ProceedType
    <2> QED
      BY <1>26, <2>1 DEF LoadFloor
  <1>27. ASSUME NEW c \in Callers, CallerAdmits(c) PROVE TypeInv'
    <2>1. call' \in [Callers -> Call]
      BY <1>27, ProceedType DEF CallerAdmits
    <2>2. outstanding' \in Nat
      BY <1>27 DEF CallerAdmits
    <2> QED
      BY <1>27, <2>1, <2>2 DEF CallerAdmits
  <1>28. ASSUME NEW c \in Callers, CallerPushes(c) PROVE TypeInv'
    <2>1. call' \in [Callers -> Call]
      BY <1>28, ProceedType DEF CallerPushes
    <2>2. CommandOf(c) \in Command
      BY DEF CommandOf, Command, Origin
    <2>3. commands' \in Seq(Command)
      BY <1>28, <2>2, AppendType DEF CallerPushes, Enqueue
    <2> QED
      BY <1>28, <2>1, <2>3 DEF CallerPushes
  <1>29. ASSUME NEW c \in Callers, RefreshReceives(c) PROVE TypeInv'
    <2>1. Len(events) \in Nat /\ call[c].pos \in Nat
      BY LenType DEF Call
    <2>2. CASE Lagged(c)
      <3>1. Len(events) - EventCapacity \in Nat
        BY <2>1, <2>2 DEF Lagged
      <3>2. call' = [call EXCEPT ![c].pos = Len(events) - EventCapacity]
        BY <1>29, <2>2 DEF RefreshReceives
      <3> QED
        <4>1. call' \in [Callers -> Call]
          BY <3>1, <3>2, ProceedType
        <4> QED
          BY <1>29, <4>1 DEF RefreshReceives
    <2>3. CASE ~Lagged(c)
      <3>1. \/ Proceed(c, "frame") \/ Return(c)
            \/ call' = [call EXCEPT ![c].pos = call[c].pos + 1]
        BY <1>29, <2>3 DEF RefreshReceives
      <3>2. call[c].pos + 1 \in Nat
        BY <2>1
      <3>3. call' \in [Callers -> Call]
        <4>1. call \in [Callers -> Call]
          OBVIOUS
        <4>2. CASE call' = [call EXCEPT ![c].pos = call[c].pos + 1]
          BY <3>2, <4>1, <4>2, ProceedType
        <4>3. CASE Proceed(c, "frame") \/ Return(c)
          BY <4>1, <4>3, ProceedType
        <4> QED
          BY <3>1, <4>2, <4>3
      <3> QED
        BY <1>29, <3>3 DEF RefreshReceives
    <2> QED
      BY <2>2, <2>3
  <1>30. ASSUME NEW c \in Callers, RefreshTimesOut(c) PROVE TypeInv'
    <2>1. call' \in [Callers -> Call]
      BY <1>30, ProceedType DEF RefreshTimesOut
    <2> QED
      BY <1>30, <2>1 DEF RefreshTimesOut
  <1>31. ASSUME NEW c \in Callers, TakeFrame(c) PROVE TypeInv'
    <2>1. call' \in [Callers -> Call]
      BY <1>31, ProceedType DEF TakeFrame
    <2> QED
      BY <1>31, <2>1 DEF TakeFrame
  <1>32. CASE DesktopChanges
    <2>1. PICK size \in Sizes : server' = [server EXCEPT !.size = size, !.dirty = TRUE]
      BY <1>32 DEF DesktopChanges
    <2>2. server' \in Server
      BY <2>1 DEF Server
    <2>3. changes' \in 0 .. MaxChanges
      <3>1. changes < MaxChanges /\ changes' = changes + 1
        BY <1>32 DEF DesktopChanges
      <3> QED
        BY <3>1
    <2> QED
      BY <1>32, <2>2, <2>3 DEF DesktopChanges
  <1>33. CASE ServerReads
    <2>1. Head(c2s) \in Message /\ c2s' \in Seq(Message)
      BY <1>33, HeadTailType DEF ServerReads
    <2>2. server' \in Server
      <3>1. CASE Head(c2s).kind = "request"
        <4>1. Head(c2s) \in Request
          BY <2>1, <3>1 DEF Message
        <4>2. Append(server.pending, Head(c2s)) \in Seq(Request)
          BY <4>1, AppendType DEF Server
        <4>3. server' = [server EXCEPT !.pending = Append(server.pending, Head(c2s))]
          BY <1>33, <3>1 DEF ServerReads
        <4> QED
          BY <4>2, <4>3 DEF Server
      <3>2. CASE Head(c2s).kind # "request"
        BY <1>33, <3>2 DEF ServerReads
      <3> QED
        BY <3>1, <3>2
    <2> QED
      BY <1>33, <2>1, <2>2 DEF ServerReads
  <1>34. CASE ServerAnswers
    <2>1. PICK k \in 1 .. Len(server.pending), whole \in BOOLEAN :
            /\ \E rs \in Composed(whole) :
                 s2c' = Append(s2c, [kind |-> "update", rects |-> rs])
            /\ server' = [server EXCEPT
                 !.pending = SubSeq(server.pending, k + 1, Len(server.pending)),
                 !.told = server.size, !.dirty = FALSE, !.composed = server.composed + 1]
      BY <1>34 DEF ServerAnswers
    <2>5. PICK rs \in Composed(whole) :
            s2c' = Append(s2c, [kind |-> "update", rects |-> rs])
      BY <2>1
    <2>2. rs \in Seq(Rect)
      <3> DEFINE paint == [kind |-> "paint", whole |-> whole]
                 resize == [kind |-> "resize", size |-> server.size]
      <3>1. paint \in Rect /\ resize \in Rect
        BY DEF Rect, Server
      <3>2. <<paint>> \in Seq(Rect) /\ <<resize>> \in Seq(Rect)
            /\ <<paint, resize>> \in Seq(Rect) /\ <<resize, paint>> \in Seq(Rect)
        BY <3>1
      <3>3. rs \in {<<paint>>, <<resize>>, <<paint, resize>>, <<resize, paint>>}
        BY <2>5 DEF Composed
      <3> QED
        BY <3>2, <3>3
    <2>3. s2c' \in Seq(ServerMessage)
      <3>1. [kind |-> "update", rects |-> rs] \in ServerMessage
        BY <2>2 DEF ServerMessage
      <3> QED
        BY <2>5, <3>1, AppendType
    <2>4. server' \in Server
      <3>1. server.pending \in Seq(Request) /\ Len(server.pending) \in Nat
        BY LenType DEF Server
      <3>2. SubSeq(server.pending, k + 1, Len(server.pending)) \in Seq(Request)
        <4>1. \A i \in k + 1 .. Len(server.pending) : server.pending[i] \in Request
          BY <3>1, ElementOfSeq
        <4> QED
          BY <3>1, <4>1, SubSeqProperties
      <3> QED
        <4>1. server.composed + 1 \in Nat /\ server.size \in Sizes
          BY DEF Server
        <4> QED
          BY <2>1, <3>2, <4>1 DEF Server
    <2> QED
      BY <1>34, <2>3, <2>4 DEF ServerAnswers
  <1>35. CASE ServerNotices
    BY <1>35, AppendType DEF ServerNotices, ServerMessage
  <1>36. CASE LinkBreaks
    BY <1>36, EmptySeq DEF LinkBreaks, Server
  <1>37. CASE UNCHANGED vars
    BY <1>37 DEF vars
  <1> QED
    BY <1>1, <1>2, <1>3, <1>4, <1>5, <1>6, <1>7, <1>8, <1>9, <1>10, <1>11, <1>12, <1>13, <1>14, <1>15, <1>16, <1>17, <1>18, <1>19, <1>20, <1>21, <1>22, <1>23, <1>24, <1>25, <1>26, <1>27, <1>28, <1>29, <1>30, <1>31, <1>32, <1>33, <1>34, <1>35, <1>36, <1>37 DEF Next, MarkDead,
       WriterStep, ReaderStep, CallerStep

\* The state of a session is always well typed.
THEOREM TypeCorrect == Spec => []TypeOK
  <1>1. TypeInv => TypeOK
    BY DEF TypeInv
  <1> QED
    BY TypeInit, TypeNext, <1>1, PTL DEF Spec

-----------------------------------------------------------------------------
(* Death.  Who is in mark_dead decides what the flag and the log may say.    *)

Announced == \E i \in 1 .. Len(events) : events[i] = "disconnected"
Announcing == \E a \in Actors : dying[a] = "emit"

\* A task that has not left its loop has not called mark_dead.
TasksAlive ==
    /\ wpc \in {"recv", "size", "write"} => dying["writer"] = "alive"
    /\ rpc \notin {"failed", "gone"} => dying["reader"] = "alive"

OneAnnouncer ==
    /\ \A a, b \in Actors : dying[a] = "emit" /\ dying[b] = "emit" => a = b
    /\ connected \/ Announcing => ~Announced
    /\ Announcing => ~connected

\* No receiver has passed more events than there are.
ReceiversBehind == \A c \in Callers : call[c].pos <= Len(events)

DeathInv == /\ TasksAlive
            /\ OneAnnouncer
            /\ DeathAnnouncedOnce
            /\ ReceiversBehind
            /\ DeathReachesEveryWaiter

\* Nothing of DeathInv but TasksAlive depends on more than these.
deathVars == <<connected, dying, events, call>>

LEMMA DeathInit == Init => DeathInv
  <1> SUFFICES ASSUME Init PROVE DeathInv
    OBVIOUS
  <1>1. events = <<>> /\ Len(events) = 0 /\ connected = TRUE
    BY EmptySeq DEF Init
  <1>2. \A a \in Actors : dying[a] = "alive"
    BY DEF Init
  <1>3. \A c \in Callers : call[c] = NoCall
    BY DEF Init
  <1>4. "reader" \in Actors /\ "writer" \in Actors
    BY DEF Actors
  <1> QED
    BY <1>1, <1>2, <1>3, <1>4
    DEF DeathInv, TasksAlive, OneAnnouncer, Announced, Announcing, DeathAnnouncedOnce,
        ReceiversBehind, DeathReachesEveryWaiter, NoCall

\* An event that is not the announcement, appended to the log.
LEMMA OtherEvent ==
    ASSUME TypeInv, DeathInv, NEW e \in Event \ {"disconnected"}, Emit(e),
           UNCHANGED <<connected, dying, call>>
    PROVE  (OneAnnouncer /\ DeathAnnouncedOnce /\ ReceiversBehind
             /\ DeathReachesEveryWaiter)'
  <1>1. events \in Seq(Event) /\ Len(events) \in Nat
    BY LenType DEF TypeInv, TypeOK
  <1>2. /\ Len(events') = Len(events) + 1
        /\ \A i \in 1 .. Len(events) : events'[i] = events[i]
        /\ events'[Len(events) + 1] = e
    BY <1>1, AppendProperties DEF Emit
  <1>3. \A i \in 1 .. Len(events') :
          events'[i] = "disconnected" => i \in 1 .. Len(events) /\ events[i] = "disconnected"
    BY <1>1, <1>2
  <1>4. OneAnnouncer'
    BY <1>3 DEF DeathInv, OneAnnouncer, Announced, Announcing
  <1>5. DeathAnnouncedOnce'
    BY <1>3 DEF DeathInv, DeathAnnouncedOnce
  <1>6. ASSUME NEW c \in Callers PROVE call[c].pos \in Nat
    BY DEF TypeInv, TypeOK, Call
  <1>7. ReceiversBehind'
    BY <1>1, <1>2, <1>6 DEF DeathInv, ReceiversBehind
  <1>8. ASSUME NEW c \in Callers, DeathAhead(c) PROVE DeathAhead(c)'
    BY <1>1, <1>2, <1>6, <1>8 DEF DeathAhead
  <1>9. DeathReachesEveryWaiter'
    BY <1>8 DEF DeathInv, DeathReachesEveryWaiter
  <1> QED
    BY <1>4, <1>5, <1>7, <1>9

\* An actor that had not called mark_dead enters it.
LEMMA EntersMarkDead ==
    ASSUME TypeInv, DeathInv, NEW a \in Actors, dying[a] = "alive",
           dying' = [dying EXCEPT ![a] = "swap"], UNCHANGED <<connected, events, call>>
    PROVE  (OneAnnouncer /\ DeathAnnouncedOnce /\ ReceiversBehind
             /\ DeathReachesEveryWaiter)'
  <1>1. \A b \in Actors : dying'[b] = "emit" <=> dying[b] = "emit"
    BY DEF TypeInv, TypeOK
  <1> QED
    BY <1>1 DEF DeathInv, OneAnnouncer, Announced, Announcing, DeathAnnouncedOnce,
                ReceiversBehind, DeathReachesEveryWaiter, DeathAhead

\* A step of one caller: it stays outside the wait, or its receiver moves on.
LEMMA CallerMoves ==
    ASSUME TypeInv, DeathInv, NEW c \in Callers,
           UNCHANGED <<connected, dying, events>>,
           \A d \in Callers \ {c} : call'[d] = call[d],
           call'[c].pos \in Nat,
           call'[c].pos <= Len(events),
           \/ call'[c].pc \notin {"push", "wait"}
           \/ call'[c].op = "input"
           \/ connected
           \/ Announcing
           \/ DeathAhead(c)'
    PROVE  (OneAnnouncer /\ DeathAnnouncedOnce /\ ReceiversBehind
             /\ DeathReachesEveryWaiter)'
  <1>1. OneAnnouncer' /\ DeathAnnouncedOnce'
    BY DEF DeathInv, OneAnnouncer, Announced, Announcing, DeathAnnouncedOnce
  <1>2. ReceiversBehind'
    BY DEF DeathInv, ReceiversBehind
  <1>3. ASSUME NEW d \in Callers, call'[d].pc \in {"push", "wait"}, call'[d].op # "input"
        PROVE  connected \/ Announcing \/ DeathAhead(d)'
    <2>1. CASE d = c
      BY <1>3, <2>1
    <2>2. CASE d # c
      <3>1. call'[d] = call[d]
        BY <2>2
      <3>2. connected \/ Announcing \/ DeathAhead(d)
        BY <1>3, <3>1 DEF DeathInv, DeathReachesEveryWaiter, Announcing
      <3> QED
        BY <3>1, <3>2 DEF DeathAhead
    <2> QED
      BY <2>1, <2>2
  <1>4. DeathReachesEveryWaiter'
    BY <1>3 DEF DeathReachesEveryWaiter, Announcing
  <1> QED
    BY <1>1, <1>2, <1>4

LEMMA DeathNext == TypeInv /\ DeathInv /\ [Next]_vars => DeathInv'
  <1> SUFFICES ASSUME TypeInv, DeathInv, [Next]_vars PROVE DeathInv'
    OBVIOUS
  <1> DEFINE Rest == OneAnnouncer /\ DeathAnnouncedOnce /\ ReceiversBehind
                       /\ DeathReachesEveryWaiter
  <1> USE DEF innerVars, lifeVars, screenVars, countVars, clientVars, writerVars,
              readerVars, callerVars, externalVars, wireVars, serverVars
  <1>a. events \in Seq(Event) /\ Len(events) \in Nat
    BY LenType DEF TypeInv, TypeOK
  <1>b. ASSUME NEW c \in Callers PROVE call[c].pos \in Nat /\ call[c].pos <= Len(events)
    BY DEF TypeInv, TypeOK, Call, DeathInv, ReceiversBehind
  <1>c. dying \in [Actors -> Phases] /\ call \in [Callers -> Call]
    BY DEF TypeInv, TypeOK
  <1>d. UNCHANGED deathVars => Rest'
    BY DEF deathVars, DeathInv, OneAnnouncer, Announced, Announcing, DeathAnnouncedOnce,
           ReceiversBehind, DeathReachesEveryWaiter, DeathAhead
  <1>1. TasksAlive'
    <2>1. ASSUME NEW a \in Actors, MarkDead(a) PROVE TasksAlive'
      BY <2>1, <1>c DEF DeathInv, TasksAlive, MarkDead, MarkDeadSwap, MarkDeadEmit,
                        MarkDeadTell, Actors
    <2>2. CASE Close
      BY <2>2, <1>c DEF DeathInv, TasksAlive, Close, Actors
    <2>3. CASE WriterStep
      BY <2>3, <1>c DEF DeathInv, TasksAlive, WriterStep, WriterTakes, WriterReadsSize,
                        WriterWrites, WriterFails, WriterStops, WriterHalfCloses, Actors
    <2>4. CASE ReaderStep
      BY <2>4, <1>c DEF DeathInv, TasksAlive, ReaderStep, BeginUpdate, PaintRect, NextRectIs,
           ResizeRect, ResizeInvalidates, ResizeAnnounces, AnswerAll, ReaderAdmits,
           ReaderPushes, AfterRequest, NumberPaint, MarkPainted, PublishPainted,
           ReadNotice, ReaderFails, ReaderStops, Actors
    <2>5. CASE UNCHANGED <<dying, wpc, rpc>>
      BY <2>5 DEF DeathInv, TasksAlive
    <2>6. ASSUME NEW c \in Callers, Begin(c) \/ CallerStep(c) \/ RefreshTimesOut(c)
          PROVE  UNCHANGED <<dying, wpc, rpc>>
      BY <2>6 DEF Begin, CallerStep, LoadFloor, CallerAdmits, CallerPushes,
                  RefreshReceives, TakeFrame, RefreshTimesOut
    <2>7. CASE DesktopChanges \/ ServerReads \/ ServerAnswers \/ ServerNotices \/ LinkBreaks
      BY <2>7, <2>5 DEF DesktopChanges, ServerReads, ServerAnswers, ServerNotices, LinkBreaks
    <2>8. CASE UNCHANGED vars
      BY <2>8, <2>5 DEF vars
    <2> QED
      BY <2>1, <2>2, <2>3, <2>4, <2>5, <2>6, <2>7, <2>8 DEF Next
  <1>2. ASSUME NEW a \in Actors, MarkDeadSwap(a) PROVE Rest'
    <2>1. CASE connected
      <3>1. /\ dying' = [dying EXCEPT ![a] = "emit"] /\ connected' = FALSE
            /\ events' = events /\ call' = call
        BY <1>2, <2>1 DEF MarkDeadSwap
      <3>2. ~Announced /\ ~Announcing
        BY <2>1 DEF DeathInv, OneAnnouncer
      <3>3. dying'[a] = "emit" /\ \A b \in Actors : dying'[b] = "emit" => b = a
        BY <3>1, <3>2, <1>c DEF Announcing
      <3> QED
        BY <3>1, <3>2, <3>3
        DEF DeathInv, OneAnnouncer, Announced, Announcing, DeathAnnouncedOnce,
            ReceiversBehind, DeathReachesEveryWaiter
    <2>2. CASE ~connected
      <3>1. /\ dying' = [dying EXCEPT ![a] = "over"] /\ connected' = FALSE
            /\ events' = events /\ call' = call /\ dying[a] = "swap"
        BY <1>2, <2>2 DEF MarkDeadSwap
      <3>2. \A b \in Actors : dying'[b] = "emit" <=> dying[b] = "emit"
        BY <3>1, <1>c
      <3> QED
        BY <2>2, <3>1, <3>2
        DEF DeathInv, OneAnnouncer, Announced, Announcing, DeathAnnouncedOnce,
            ReceiversBehind, DeathReachesEveryWaiter, DeathAhead
    <2> QED
      BY <2>1, <2>2
  <1>3. ASSUME NEW a \in Actors, MarkDeadEmit(a) PROVE Rest'
    <2>1. /\ dying' = [dying EXCEPT ![a] = "tell"] /\ connected' = connected
          /\ events' = Append(events, "disconnected") /\ call' = call
      BY <1>3 DEF MarkDeadEmit, Emit
    <2>2. Announcing /\ ~connected /\ ~Announced
      BY <1>3 DEF MarkDeadEmit, Announcing, DeathInv, OneAnnouncer
    <2>3. \A b \in Actors : dying'[b] # "emit"
      BY <1>3, <2>1, <1>c DEF MarkDeadEmit, DeathInv, OneAnnouncer
    <2>4. /\ Len(events') = Len(events) + 1
          /\ \A i \in 1 .. Len(events) : events'[i] = events[i]
          /\ events'[Len(events) + 1] = "disconnected"
      BY <1>a, <2>1, AppendProperties DEF Event
    <2>5. \A i \in 1 .. Len(events') : events'[i] = "disconnected" => i = Len(events) + 1
      BY <1>a, <2>2, <2>4 DEF Announced
    <2>6. ASSUME NEW c \in Callers PROVE DeathAhead(c)'
      <3>1. Len(events) + 1 \in 1 .. Len(events') /\ call'[c].pos < Len(events) + 1
        BY <1>a, <1>b, <2>1, <2>4
      <3> QED
        BY <3>1, <2>4 DEF DeathAhead
    <2>7. OneAnnouncer'
      BY <2>1, <2>2, <2>3 DEF OneAnnouncer, Announcing
    <2>8. DeathAnnouncedOnce'
      BY <2>5 DEF DeathAnnouncedOnce
    <2>9. ReceiversBehind'
      BY <1>a, <1>b, <2>1, <2>4 DEF ReceiversBehind
    <2> QED
      BY <2>6, <2>7, <2>8, <2>9 DEF DeathReachesEveryWaiter
  <1>4. ASSUME NEW a \in Actors, MarkDeadTell(a) PROVE Rest'
    <2>1. \A b \in Actors : dying'[b] = "emit" <=> dying[b] = "emit"
      BY <1>4, <1>c DEF MarkDeadTell
    <2> QED
      BY <1>4, <2>1
      DEF MarkDeadTell, DeathInv, OneAnnouncer, Announced, Announcing, DeathAnnouncedOnce,
          ReceiversBehind, DeathReachesEveryWaiter, DeathAhead
  <1>5. ASSUME Close PROVE Rest'
    <2>1. /\ "closer" \in Actors /\ dying["closer"] = "alive"
          /\ dying' = [dying EXCEPT !["closer"] = "swap"]
          /\ UNCHANGED <<connected, events, call>>
      BY <1>5 DEF Close, Actors
    <2> QED
      BY <2>1, EntersMarkDead
  <1>6. ASSUME WriterStep PROVE Rest'
    <2>1. CASE WriterFails
      BY <2>1, EntersMarkDead DEF WriterFails, DeathInv, TasksAlive, Actors
    <2>2. CASE WriterTakes \/ WriterReadsSize \/ WriterWrites \/ WriterStops \/ WriterHalfCloses
      <3>1. UNCHANGED deathVars
        BY <2>2 DEF WriterTakes, WriterReadsSize, WriterWrites, WriterStops,
                    WriterHalfCloses, deathVars
      <3> QED
        BY <3>1, <1>d
    <2> QED
      BY <1>6, <2>1, <2>2 DEF WriterStep
  <1>7. ASSUME ReaderStep PROVE Rest'
    <2>1. CASE ReaderFails
      BY <2>1, EntersMarkDead DEF ReaderFails, DeathInv, TasksAlive, Actors
    <2>2. CASE ResizeAnnounces
      <3>1. Emit("resized") /\ UNCHANGED <<connected, dying, call>>
        BY <2>2 DEF ResizeAnnounces
      <3>2. "resized" \in Event \ {"disconnected"}
        BY DEF Event
      <3> QED
        BY <3>1, <3>2, OtherEvent
    <2>3. CASE PublishPainted
      <3>1. Emit("painted") /\ UNCHANGED <<connected, dying, call>>
        BY <2>3 DEF PublishPainted
      <3>2. "painted" \in Event \ {"disconnected"}
        BY DEF Event
      <3> QED
        BY <3>1, <3>2, OtherEvent
    <2>4. CASE ReadNotice
      <3>1. Emit(Head(s2c).kind) /\ UNCHANGED <<connected, dying, call>>
        BY <2>4 DEF ReadNotice
      <3>2. Head(s2c).kind \in Event \ {"disconnected"}
        BY <2>4 DEF ReadNotice, Event
      <3> QED
        BY <3>1, <3>2, OtherEvent
    <2>5. CASE \/ BeginUpdate \/ PaintRect \/ ResizeRect \/ ResizeInvalidates \/ AnswerAll
               \/ ReaderAdmits \/ ReaderPushes \/ NumberPaint \/ MarkPainted \/ ReaderStops
      <3>1. UNCHANGED deathVars
        BY <2>5 DEF BeginUpdate, PaintRect, ResizeRect, ResizeInvalidates, AnswerAll,
             ReaderAdmits, ReaderPushes, NumberPaint, MarkPainted, ReaderStops, deathVars
      <3> QED
        BY <3>1, <1>d
    <2> QED
      BY <1>7, <2>1, <2>2, <2>3, <2>4, <2>5 DEF ReaderStep
  <1>8. ASSUME NEW c \in Callers, Begin(c) \/ CallerStep(c) \/ RefreshTimesOut(c)
        PROVE  Rest'
    <2> DEFINE Others == \A d \in Callers \ {c} : call'[d] = call[d]
    <2>1. ASSUME Return(c), UNCHANGED <<connected, dying, events>> PROVE Rest'
      <3>1. call'[c] = NoCall /\ Others
        BY <2>1, <1>c DEF Return
      <3>2. NoCall.pos = 0 /\ NoCall.pc = "idle"
        BY DEF NoCall
      <3> QED
        BY <1>a, <2>1, <3>1, <3>2, CallerMoves
    <2>2. CASE Begin(c)
      <3>1. UNCHANGED <<connected, dying, events>>
        BY <2>2 DEF Begin
      <3>2. CASE call' = [call EXCEPT ![c].pc = "admit"]
        <4>1. call'[c].pos = call[c].pos /\ call'[c].pc = "admit" /\ Others
          BY <1>c, <3>2 DEF Call
        <4> QED
          BY <1>b, <3>1, <4>1, CallerMoves
      <3>3. ASSUME NEW o \in Ops,
                   call' = [call EXCEPT ![c] =
                       [NoCall EXCEPT !.pc = "floor", !.op = o, !.pos = Len(events),
                          !.begun = updatesBegun, !.composed = server.composed]]
            PROVE  Rest'
        <4>1. call'[c].pos = Len(events) /\ call'[c].pc = "floor" /\ Others
          BY <1>c, <3>3 DEF NoCall
        <4> QED
          BY <1>a, <3>1, <4>1, CallerMoves
      <3> QED
        BY <2>2, <3>2, <3>3 DEF Begin
    <2>3. CASE LoadFloor(c)
      <3>1. call'[c].pos = call[c].pos /\ call'[c].pc = "admit" /\ Others
        BY <1>c, <2>3 DEF LoadFloor, Call
      <3>2. UNCHANGED <<connected, dying, events>>
        BY <2>3 DEF LoadFloor
      <3> QED
        BY <1>b, <3>1, <3>2, CallerMoves
    <2>4. CASE CallerAdmits(c)
      <3>1. UNCHANGED <<connected, dying, events>>
        BY <2>4 DEF CallerAdmits
      <3>2. CASE ~connected
        BY <2>1, <2>4, <3>1, <3>2 DEF CallerAdmits
      <3>3. CASE connected
        <4>1. call'[c].pos = call[c].pos /\ Others
          BY <1>c, <2>4, <3>3 DEF CallerAdmits, Proceed, Call
        <4> QED
          BY <1>b, <3>1, <3>3, <4>1, CallerMoves
      <3> QED
        BY <3>2, <3>3
    <2>5. CASE CallerPushes(c)
      <3>1. UNCHANGED <<connected, dying, events>>
        BY <2>5 DEF CallerPushes
      <3>2. CASE Return(c)
        BY <2>1, <3>1, <3>2
      <3>3. CASE Proceed(c, "wait")
        <4>1. /\ call'[c].pos = call[c].pos /\ call'[c].op = call[c].op /\ Others
              /\ call[c].pc = "push"
          BY <1>c, <2>5, <3>3 DEF CallerPushes, Proceed, Call
        <4>2. call[c].op = "input" \/ connected \/ Announcing \/ DeathAhead(c)
          BY <4>1 DEF DeathInv, DeathReachesEveryWaiter, Announcing
        <4>3. DeathAhead(c) => DeathAhead(c)'
          BY <3>1, <4>1 DEF DeathAhead
        <4> QED
          BY <1>b, <3>1, <4>1, <4>2, <4>3, CallerMoves
      <3> QED
        BY <2>5, <3>2, <3>3 DEF CallerPushes
    <2>6. CASE RefreshReceives(c)
      <3>1. UNCHANGED <<connected, dying, events>> /\ call[c].pc = "wait"
            /\ call[c].pos < Len(events)
        BY <2>6 DEF RefreshReceives
      <3>2. call[c].op = "input" \/ connected \/ Announcing \/ DeathAhead(c)
        BY <3>1 DEF DeathInv, DeathReachesEveryWaiter, Announcing
      <3>3. CASE Return(c)
        BY <2>1, <3>1, <3>3
      <3>4. CASE Proceed(c, "frame")
        <4>1. call'[c].pos = call[c].pos /\ call'[c].pc = "frame" /\ Others
          BY <1>c, <3>4 DEF Proceed, Call
        <4> QED
          BY <1>b, <3>1, <4>1, CallerMoves
      <3>5. ASSUME Lagged(c), call' = [call EXCEPT ![c].pos = Len(events) - EventCapacity]
            PROVE  Rest'
        <4>1. /\ call'[c].pos = Len(events) - EventCapacity
              /\ call'[c].op = call[c].op /\ Others
          BY <1>c, <3>5 DEF Call
        <4>2. Len(events) - EventCapacity \in Nat
          BY <1>a, <1>b, <3>5 DEF Lagged
        <4>3. DeathAhead(c) => DeathAhead(c)'
          BY <1>a, <1>b, <3>1, <4>1, <4>2 DEF DeathAhead
        <4> QED
          BY <1>a, <3>1, <3>2, <4>1, <4>2, <4>3, CallerMoves
      <3>6. ASSUME events[call[c].pos + 1] # "disconnected",
                   call' = [call EXCEPT ![c].pos = call[c].pos + 1]
            PROVE  Rest'
        <4>1. /\ call'[c].pos = call[c].pos + 1
              /\ call'[c].op = call[c].op /\ Others
          BY <1>c, <3>6 DEF Call
        <4>2. DeathAhead(c) => DeathAhead(c)'
          BY <1>a, <1>b, <3>1, <3>6, <4>1 DEF DeathAhead
        <4> QED
          BY <1>a, <1>b, <3>1, <3>2, <4>1, <4>2, CallerMoves
      <3> QED
        BY <2>6, <3>3, <3>4, <3>5, <3>6 DEF RefreshReceives
    <2>7. CASE TakeFrame(c) \/ RefreshTimesOut(c)
      BY <2>1, <2>7 DEF TakeFrame, RefreshTimesOut
    <2> QED
      BY <1>8, <2>2, <2>3, <2>4, <2>5, <2>6, <2>7 DEF CallerStep
  <1>9. ASSUME DesktopChanges \/ ServerReads \/ ServerAnswers \/ ServerNotices \/ LinkBreaks
        PROVE  Rest'
    <2>1. UNCHANGED deathVars
      BY <1>9 DEF DesktopChanges, ServerReads, ServerAnswers, ServerNotices, LinkBreaks,
                  deathVars
    <2> QED
      BY <2>1, <1>d
  <1>10. ASSUME UNCHANGED vars PROVE Rest'
    <2>1. UNCHANGED deathVars
      BY <1>10 DEF vars, deathVars
    <2> QED
      BY <2>1, <1>d
  <1>11. Rest'
    <2> HIDE DEF Rest
    <2> QED
      BY <1>2, <1>3, <1>4, <1>5, <1>6, <1>7, <1>8, <1>9, <1>10 DEF Next, MarkDead
  <1> QED
    BY <1>1, <1>11 DEF DeathInv

LEMMA DeathHolds == Spec => [](TypeInv /\ DeathInv)
  BY TypeInit, TypeNext, DeathInit, DeathNext, PTL DEF Spec

\* The session's Disconnected event is sent once at most, whichever of the read
\* loop, the writer and a close calls mark_dead first.
THEOREM DeathIsAnnouncedOnce == Spec => []DeathAnnouncedOnce
  <1>1. DeathInv => DeathAnnouncedOnce
    BY DEF DeathInv
  <1> QED
    BY DeathHolds, <1>1, PTL

\* No refresh that has sent its request is left to its timer by a death: the
\* announcement is still ahead of its receiver, however the steps of mark_dead
\* and those of refresh interleave.
THEOREM DeathReachesWaiters == Spec => []DeathReachesEveryWaiter
  <1>1. DeathInv => DeathReachesEveryWaiter
    BY DEF DeathInv
  <1> QED
    BY DeathHolds, <1>1, PTL

-----------------------------------------------------------------------------
(* Freshness.  The framebuffer is never older than the update last declared  *)
(* painted, and a call's floor is never lower than what had begun before it. *)

\* painted_any is set only by a rect of the update being read, and only an
\* update that painted is numbered.
ReaderPaints ==
    /\ update.painted => fb.by \in {0, updatesBegun}
    /\ rpc = "number" => update.painted

ScreenCurrent ==
    /\ lastPaintedUpdate <= updatesBegun
    /\ fb.by = 0 \/ fb.by >= lastPaintedUpdate

FloorsHold ==
    \A c \in Callers :
        /\ call[c].pc = "floor" => call[c].begun <= updatesBegun
        /\ call[c].pc # "floor" => call[c].begun <= call[c].floor
        /\ call[c].pc = "frame" => lastPaintedUpdate > call[c].floor

FreshInv == ReaderPaints /\ ScreenCurrent /\ FloorsHold

freshVars == <<fb, updatesBegun, lastPaintedUpdate, rpc, update, call>>

LEMMA FreshInit == Init => FreshInv
  BY DEF Init, FreshInv, ReaderPaints, ScreenCurrent, FloorsHold, Black, NoUpdate, NoCall

\* What the caller's steps leave of the invariant to show.
LEMMA CallerFresh ==
    ASSUME TypeInv, FreshInv, NEW c \in Callers,
           UNCHANGED <<fb, updatesBegun, lastPaintedUpdate, rpc, update>>,
           \A d \in Callers \ {c} : call'[d] = call[d],
           call'[c].pc = "floor" => call'[c].begun <= updatesBegun,
           call'[c].pc # "floor" => call'[c].begun <= call'[c].floor,
           call'[c].pc = "frame" => lastPaintedUpdate > call'[c].floor
    PROVE  FreshInv'
  BY DEF FreshInv, ReaderPaints, ScreenCurrent, FloorsHold

LEMMA FreshNext == TypeInv /\ FreshInv /\ [Next]_vars => FreshInv'
  <1> SUFFICES ASSUME TypeInv, FreshInv, [Next]_vars PROVE FreshInv'
    OBVIOUS
  <1> USE DEF innerVars, lifeVars, screenVars, countVars, clientVars, writerVars,
              readerVars, callerVars, externalVars, wireVars, serverVars
  <1>a. /\ call \in [Callers -> Call] /\ update \in Update /\ fb \in Framebuffer
        /\ updatesBegun \in Nat /\ lastPaintedUpdate \in Nat
    BY DEF TypeInv, TypeOK
  <1>b. ASSUME NEW c \in Callers
        PROVE  call[c].begun \in Nat /\ call[c].floor \in Nat
    BY <1>a DEF Call
  <1>c. UNCHANGED freshVars => FreshInv'
    BY DEF freshVars, FreshInv, ReaderPaints, ScreenCurrent, FloorsHold
  <1>d. ASSUME UNCHANGED <<fb, updatesBegun, lastPaintedUpdate, call>>, rpc' # "number",
               update'.painted => update.painted
        PROVE  FreshInv'
    BY <1>d DEF FreshInv, ReaderPaints, ScreenCurrent, FloorsHold
  <1>e. NoUpdate.painted = FALSE
    BY DEF NoUpdate
  <1>1. CASE BeginUpdate
    <2>1. /\ updatesBegun' = updatesBegun + 1 /\ update'.painted = FALSE
          /\ rpc' = "rects" /\ UNCHANGED <<fb, lastPaintedUpdate, call>>
      BY <1>1, <1>e DEF BeginUpdate, NoUpdate
    <2>2. ReaderPaints' /\ ScreenCurrent'
      BY <1>a, <2>1 DEF FreshInv, ReaderPaints, ScreenCurrent
    <2>3. FloorsHold'
      BY <1>a, <1>b, <2>1 DEF FreshInv, FloorsHold
    <2> QED
      BY <2>2, <2>3 DEF FreshInv
  <1>2. CASE PaintRect
    <2>1. /\ fb'.by = updatesBegun /\ rpc = "rects"
          /\ UNCHANGED <<updatesBegun, lastPaintedUpdate, call, rpc>>
      BY <1>2, <1>a DEF PaintRect, NextRectIs, Framebuffer
    <2> QED
      BY <1>a, <2>1 DEF FreshInv, ReaderPaints, ScreenCurrent, FloorsHold
  <1>3. CASE ResizeRect
    <2>1. fb'.by = 0 /\ rpc' = "invalidate"
          /\ UNCHANGED <<updatesBegun, lastPaintedUpdate, call, update>>
      BY <1>3 DEF ResizeRect, Black
    <2> QED
      BY <1>a, <2>1 DEF FreshInv, ReaderPaints, ScreenCurrent, FloorsHold
  <1>4. CASE ResizeInvalidates \/ ResizeAnnounces
    <2>1. /\ UNCHANGED <<fb, updatesBegun, lastPaintedUpdate, call>> /\ rpc' # "number"
          /\ update'.painted = update.painted
      BY <1>4, <1>a DEF ResizeInvalidates, ResizeAnnounces, Update
    <2> QED
      BY <1>d, <2>1
  <1>5. CASE AnswerAll \/ ReaderAdmits \/ ReaderPushes
    <2>1. /\ UNCHANGED <<fb, updatesBegun, lastPaintedUpdate, call>>
          /\ \/ UNCHANGED update /\ rpc' # "number"
             \/ AfterRequest
      BY <1>5 DEF AnswerAll, ReaderAdmits, ReaderPushes
    <2>2. CASE UNCHANGED update /\ rpc' # "number"
      BY <1>d, <2>1, <2>2
    <2>3. CASE AfterRequest
      BY <1>e, <2>1, <2>3 DEF AfterRequest, FreshInv, ReaderPaints, ScreenCurrent, FloorsHold
    <2> QED
      BY <2>1, <2>2, <2>3
  <1>6. CASE NumberPaint
    <2>1. /\ lastPaintedUpdate' = updatesBegun /\ rpc = "number" /\ rpc' = "paint"
          /\ UNCHANGED <<fb, updatesBegun, call, update>>
      BY <1>6 DEF NumberPaint
    <2>2. fb.by \in {0, updatesBegun}
      BY <2>1 DEF FreshInv, ReaderPaints
    <2>3. ReaderPaints' /\ ScreenCurrent'
      BY <1>a, <2>1, <2>2 DEF ReaderPaints, ScreenCurrent
    <2>4. FloorsHold'
      BY <1>a, <1>b, <2>1 DEF FreshInv, ScreenCurrent, FloorsHold
    <2> QED
      BY <2>3, <2>4 DEF FreshInv
  <1>7. CASE MarkPainted \/ PublishPainted \/ ReadNotice \/ ReaderFails \/ ReaderStops
    <2>1. /\ UNCHANGED <<fb, updatesBegun, lastPaintedUpdate, call>> /\ rpc' # "number"
          /\ update'.painted => update.painted
      BY <1>7, <1>e DEF MarkPainted, PublishPainted, ReadNotice, ReaderFails, ReaderStops
    <2> QED
      BY <1>d, <2>1
  <1>8. ASSUME NEW c \in Callers, Begin(c) \/ CallerStep(c) \/ RefreshTimesOut(c)
        PROVE  FreshInv'
    <2> DEFINE Others == \A d \in Callers \ {c} : call'[d] = call[d]
    <2>1. UNCHANGED <<fb, updatesBegun, lastPaintedUpdate, rpc, update>>
      BY <1>8 DEF Begin, CallerStep, LoadFloor, CallerAdmits, CallerPushes,
                  RefreshReceives, TakeFrame, RefreshTimesOut
    <2>2. CASE Return(c)
      <3>1. call'[c] = NoCall /\ Others
        BY <2>2, <1>a DEF Return
      <3>2. NoCall.pc = "idle" /\ NoCall.begun = 0 /\ NoCall.floor = 0
        BY DEF NoCall
      <3> QED
        BY <2>1, <3>1, <3>2, CallerFresh
    <2>3. ASSUME NEW p \in {"push", "wait"}, Proceed(c, p), call[c].pc # "floor"
          PROVE  FreshInv'
      <3>1. /\ call'[c].pc = p /\ call'[c].begun = call[c].begun
            /\ call'[c].floor = call[c].floor /\ Others
        BY <2>3, <1>a DEF Proceed, Call
      <3>2. call[c].begun <= call[c].floor
        BY <2>3 DEF FreshInv, FloorsHold
      <3> QED
        BY <2>1, <3>1, <3>2, CallerFresh
    <2>4. CASE Begin(c)
      <3>1. CASE call' = [call EXCEPT ![c].pc = "admit"]
        <4>1. /\ call'[c].pc = "admit" /\ call'[c].begun = call[c].begun
              /\ call'[c].floor = call[c].floor /\ Others
          BY <3>1, <1>a DEF Call
        <4>2. call[c].begun <= call[c].floor
          BY <2>4 DEF Begin, FreshInv, FloorsHold
        <4> QED
          BY <2>1, <4>1, <4>2, CallerFresh
      <3>2. ASSUME NEW o \in Ops,
                   call' = [call EXCEPT ![c] =
                       [NoCall EXCEPT !.pc = "floor", !.op = o, !.pos = Len(events),
                          !.begun = updatesBegun, !.composed = server.composed]]
            PROVE  FreshInv'
        <4>1. call'[c].pc = "floor" /\ call'[c].begun = updatesBegun /\ Others
          BY <3>2, <1>a DEF NoCall
        <4> QED
          BY <1>a, <2>1, <4>1, CallerFresh
      <3> QED
        BY <2>4, <3>1, <3>2 DEF Begin
    <2>5. CASE LoadFloor(c)
      <3>1. /\ call'[c].pc = "admit" /\ call'[c].begun = call[c].begun
            /\ call'[c].floor = updatesBegun /\ Others /\ call[c].pc = "floor"
        BY <2>5, <1>a DEF LoadFloor, Call
      <3>2. call[c].begun <= updatesBegun
        BY <3>1 DEF FreshInv, FloorsHold
      <3> QED
        BY <2>1, <3>1, <3>2, CallerFresh
    <2>6. CASE CallerAdmits(c) \/ CallerPushes(c)
      BY <2>2, <2>3, <2>6 DEF CallerAdmits, CallerPushes
    <2>7. CASE RefreshReceives(c)
      <3>1. call[c].pc = "wait" /\ call[c].begun <= call[c].floor
        BY <2>7 DEF RefreshReceives, FreshInv, FloorsHold
      <3>2. ASSUME Answered(c), Proceed(c, "frame") PROVE FreshInv'
        <4>1. /\ call'[c].pc = "frame" /\ call'[c].begun = call[c].begun
              /\ call'[c].floor = call[c].floor /\ Others
          BY <3>2, <1>a DEF Proceed, Call
        <4> QED
          BY <2>1, <3>1, <3>2, <4>1, CallerFresh DEF Answered
      <3>3. ASSUME NEW n, call' = [call EXCEPT ![c].pos = n] PROVE FreshInv'
        <4>1. /\ call'[c].pc = "wait" /\ call'[c].begun = call[c].begun
              /\ call'[c].floor = call[c].floor /\ Others
          BY <3>1, <3>3, <1>a DEF Call
        <4> QED
          BY <2>1, <3>1, <4>1, CallerFresh
      <3> QED
        BY <2>2, <2>7, <3>2, <3>3 DEF RefreshReceives
    <2>8. CASE TakeFrame(c) \/ RefreshTimesOut(c)
      BY <2>2, <2>8 DEF TakeFrame, RefreshTimesOut
    <2> QED
      BY <1>8, <2>4, <2>5, <2>6, <2>7, <2>8 DEF CallerStep
  <1>9. ASSUME NEW a \in Actors, MarkDead(a) PROVE FreshInv'
    <2>1. UNCHANGED freshVars
      BY <1>9 DEF MarkDead, MarkDeadSwap, MarkDeadEmit, MarkDeadTell, freshVars
    <2> QED
      BY <2>1, <1>c
  <1>10. CASE Close \/ WriterStep
    <2>1. UNCHANGED freshVars
      BY <1>10 DEF Close, WriterStep, WriterTakes, WriterReadsSize, WriterWrites,
                   WriterFails, WriterStops, WriterHalfCloses, freshVars
    <2> QED
      BY <2>1, <1>c
  <1>11. CASE DesktopChanges \/ ServerReads \/ ServerAnswers \/ ServerNotices \/ LinkBreaks
    <2>1. UNCHANGED freshVars
      BY <1>11 DEF DesktopChanges, ServerReads, ServerAnswers, ServerNotices, LinkBreaks,
                   freshVars
    <2> QED
      BY <2>1, <1>c
  <1>12. CASE UNCHANGED vars
    BY <1>12, <1>c DEF vars, freshVars
  <1> QED
    BY <1>1, <1>2, <1>3, <1>4, <1>5, <1>6, <1>7, <1>8, <1>9, <1>10, <1>11, <1>12
    DEF Next, ReaderStep

\* A refresh that resolves hands over a frame with pixels of an update that
\* began after the call, unless a resize has emptied it since: neither an update
\* already being read nor an old Painted event can answer it.
THEOREM RefreshesAreFresh == Spec => []RefreshIsFresh
  <1>1. TypeInv /\ FreshInv => RefreshIsFresh
    <2> SUFFICES ASSUME TypeInv, FreshInv, NEW c \in Callers, call[c].pc = "frame"
                 PROVE  fb.by = 0 \/ fb.by > call[c].begun
      BY DEF RefreshIsFresh
    <2>1. call[c].begun \in Nat /\ call[c].floor \in Nat /\ fb.by \in Nat
          /\ lastPaintedUpdate \in Nat
      BY DEF TypeInv, TypeOK, Call, Framebuffer
    <2> QED
      BY <2>1 DEF FreshInv, ScreenCurrent, FloorsHold
  <1> QED
    BY TypeInit, TypeNext, FreshInit, FreshNext, <1>1, PTL DEF Spec

-----------------------------------------------------------------------------
(* The screen: what is asked for, what is coming, and what is still black.  *)

\* A connected session has its two tasks in their loops, unless the link failed
\* the writer.
TasksRunning ==
    /\ connected => /\ ~shutdown
                    /\ \A a \in Actors : dying[a] \in {"alive", "swap"}
                    /\ wpc \in {"recv", "size", "write", "failed"}
                    /\ rpc # "gone"
    /\ wpc = "failed" => link = "down"

\* The rects of the update being read that are not applied yet.
RectsLeft == IF rpc \in {"invalidate", "announce"} THEN Tail(update.rects) ELSE update.rects

RectsReadInTurn == rpc \notin {"rects", "invalidate", "announce"} => update.rects = <<>>

\* The updates in the stream and the one being read lead to the size the desktop
\* last told: the last of them that resizes does, or the framebuffer has it.
Resizes(rs) == \E r \in Range(rs) : r.kind = "resize"
ToldBy(rs) == \A r \in Range(rs) : r.kind = "resize" => r.size = server.told
ResizingAfter(n) ==
    \E j \in 1 .. Len(s2c) : j > n /\ s2c[j].kind = "update" /\ Resizes(s2c[j].rects)

SizeTold ==
    /\ \A i \in 1 .. Len(s2c) :
         s2c[i].kind = "update" => ResizingAfter(i) \/ ToldBy(s2c[i].rects)
    /\ rpc \notin {"failed", "gone"} /\ ~ResizingAfter(0) =>
         /\ ToldBy(RectsLeft)
         /\ Resizes(RectsLeft) \/ fb.size = server.told

\* The requests on their way to an answer.
InHand == IF wpc \in {"size", "write"} THEN {wcmd} ELSE {}
UnderWay == Range(commands) \cup InHand \cup Range(c2s) \cup Range(server.pending)

\* A request whose answer covers a screen of the framebuffer's size.
AsksForAll(r) ==
    /\ r.kind = "request" /\ ~r.incremental
    /\ "area" \in DOMAIN r => r.area >= fb.size

\* A rect after which the framebuffer is not black, or needs_full is set.
Clears(rs) == \E r \in Range(rs) : r.kind = "resize" \/ r.whole
ClearingComes == \/ \E m \in Range(s2c) : m.kind = "update" /\ Clears(m.rects)
                 \/ Clears(RectsLeft)

LoopAsks ==
    Continuous /\ Live => UpdateComing \/ \E m \in UnderWay : m.kind = "request"

BlackAhead ==
    fb.black /\ Live =>
        \/ needsFull \/ rpc = "invalidate" \/ ClearingComes
        \/ \E m \in UnderWay : AsksForAll(m)

ScreenInv == TasksRunning /\ RectsReadInTurn /\ SizeTold /\ LoopAsks /\ BlackAhead

USE DEF Range

LEMMA RangeAppend ==
    ASSUME NEW S, NEW s \in Seq(S), NEW e \in S
    PROVE  Range(Append(s, e)) = Range(s) \cup {e}
  <1>1. /\ Append(s, e) \in Seq(S) /\ Len(Append(s, e)) = Len(s) + 1 /\ Len(s) \in Nat
        /\ \A i \in 1 .. Len(s) : Append(s, e)[i] = s[i]
        /\ Append(s, e)[Len(s) + 1] = e
    BY AppendProperties, LenProperties
  <1>2. DOMAIN Append(s, e) = 1 .. Len(s) + 1 /\ DOMAIN s = 1 .. Len(s)
    BY <1>1, LenProperties
  <1> QED
    BY <1>1, <1>2

LEMMA RangeTail ==
    ASSUME NEW S, NEW s \in Seq(S), s # <<>>
    PROVE  Range(s) = {Head(s)} \cup Range(Tail(s))
  <1>1. /\ Tail(s) \in Seq(S) /\ Len(Tail(s)) = Len(s) - 1
        /\ \A i \in 1 .. Len(Tail(s)) : Tail(s)[i] = s[i + 1]
        /\ Len(s) \in Nat \ {0} /\ Head(s) = s[1]
    BY HeadTailProperties, EmptySeq
  <1>2. DOMAIN Tail(s) = 1 .. Len(s) - 1 /\ DOMAIN s = 1 .. Len(s)
    BY <1>1, LenProperties
  <1>3. ASSUME NEW i \in 1 .. Len(s) PROVE s[i] \in {Head(s)} \cup Range(Tail(s))
    <2>1. CASE i = 1
      BY <1>1, <2>1
    <2>2. CASE i # 1
      <3>1. i - 1 \in 1 .. Len(s) - 1 /\ Tail(s)[i - 1] = s[i]
        BY <1>1, <2>2
      <3> QED
        BY <1>2, <3>1
    <2> QED
      BY <2>1, <2>2
  <1>4. Head(s) \in Range(s)
    BY <1>1, <1>2
  <1>5. Range(Tail(s)) \subseteq Range(s)
    BY <1>1, <1>2
  <1> QED
    BY <1>2, <1>3, <1>4, <1>5

LEMMA RangeEmpty == Range(<<>>) = {}
  OBVIOUS

\* What is left of a sequence when its first k members are taken.
LEMMA RangeDrop ==
    ASSUME NEW S, NEW s \in Seq(S), NEW k \in 1 .. Len(s)
    PROVE  /\ SubSeq(s, k + 1, Len(s)) \in Seq(S)
           /\ Range(s) = {s[i] : i \in 1 .. k} \cup Range(SubSeq(s, k + 1, Len(s)))
  <1> DEFINE m == k + 1
             t == SubSeq(s, m, Len(s))
  <1>1. Len(s) \in Nat /\ DOMAIN s = 1 .. Len(s) /\ \A i \in 1 .. Len(s) : s[i] \in S
    BY LenProperties
  <1>2. m \in Int /\ Len(s) \in Int /\ \A i \in m .. Len(s) : s[i] \in S
    BY <1>1
  <1>3. /\ t \in Seq(S)
        /\ Len(t) = IF m <= Len(s) THEN Len(s) - m + 1 ELSE 0
        /\ \A i \in 1 .. Len(s) - m + 1 : t[i] = s[m + i - 1]
    <2> HIDE DEF m
    <2> QED
      BY <1>2, SubSeqProperties
  <1> HIDE DEF t
  <1>4. Len(t) = Len(s) - k /\ DOMAIN t = 1 .. Len(s) - k
          /\ \A i \in 1 .. Len(s) - k : t[i] = s[k + i]
    <2>1. Len(t) = Len(s) - k
      <3>1. k \in Nat /\ k <= Len(s)
        BY <1>1
      <3>2. Len(t) = IF k + 1 <= Len(s) THEN Len(s) - (k + 1) + 1 ELSE 0
        BY <1>3
      <3>3. CASE k + 1 <= Len(s)
        <4>1. Len(t) = Len(s) - (k + 1) + 1
          BY <3>2, <3>3
        <4> QED
          BY <1>1, <3>1, <4>1
      <3>4. CASE ~(k + 1 <= Len(s))
        <4>1. Len(t) = 0
          BY <3>2, <3>4
        <4>2. k = Len(s)
          <5>1. \A a, b \in Nat : a <= b /\ ~(a + 1 <= b) => a = b
            OBVIOUS
          <5> QED
            BY <1>1, <3>1, <3>4, <5>1
        <4> QED
          BY <1>1, <4>1, <4>2
      <3> QED
        BY <3>3, <3>4
    <2>2. DOMAIN t = 1 .. Len(t)
      BY <1>3, LenProperties
    <2>3. ASSUME NEW i \in 1 .. Len(s) - k PROVE t[i] = s[k + i]
      <3>1. i \in 1 .. Len(s) - m + 1 /\ m + i - 1 = k + i
        BY <1>1
      <3>2. t[i] = s[m + i - 1]
        BY <1>3, <3>1
      <3> QED
        BY <3>1, <3>2
    <2> QED
      BY <2>1, <2>2, <2>3
  <1>5. ASSUME NEW i \in 1 .. Len(s) PROVE s[i] \in {s[j] : j \in 1 .. k} \cup Range(t)
    <2>1. CASE i <= k
      BY <1>1, <2>1
    <2>2. CASE i > k
      <3>1. i - k \in 1 .. Len(s) - k /\ t[i - k] = s[i]
        BY <1>1, <1>4, <2>2
      <3> QED
        BY <1>4, <3>1
    <2> QED
      BY <1>1, <2>1, <2>2
  <1>6. \A i \in 1 .. Len(s) - k : k + i \in 1 .. Len(s)
    BY <1>1
  <1>7. Range(t) \subseteq Range(s)
    BY <1>1, <1>4, <1>6
  <1>8. {s[i] : i \in 1 .. k} \subseteq Range(s)
    BY <1>1
  <1>9. Range(s) = {s[i] : i \in 1 .. k} \cup Range(t)
    BY <1>1, <1>5, <1>7, <1>8
  <1> QED
    BY <1>3, <1>9 DEF t

HIDE DEF Range

\* The requests under way are those the properties quantify over.
LEMMA AskedRange ==
    TypeInv => /\ Asked \in Seq(Command \cup Message \cup {NoCommand})
               /\ Range(Asked) = UnderWay
  <1> SUFFICES ASSUME TypeInv
               PROVE  /\ Asked \in Seq(Command \cup Message \cup {NoCommand})
                      /\ Range(Asked) = UnderWay
    OBVIOUS
  <1> DEFINE Any == Command \cup Message \cup {NoCommand}
             hand == IF wpc \in {"size", "write"} THEN <<wcmd>> ELSE <<>>
  <1>1. /\ commands \in Seq(Any) /\ c2s \in Seq(Any) /\ server.pending \in Seq(Any)
    <2>1. commands \in Seq(Command) /\ c2s \in Seq(Message) /\ server.pending \in Seq(Request)
      BY DEF TypeInv, TypeOK, Server
    <2>2. Command \subseteq Any /\ Message \subseteq Any /\ Request \subseteq Any
      BY DEF Message
    <2> HIDE DEF Any
    <2> QED
      BY <2>1, <2>2, SeqMonotonic
  <1>2. hand \in Seq(Any) /\ Range(hand) = InHand
    <2>1. wcmd \in Any
      BY DEF TypeInv, TypeOK
    <2> HIDE DEF Any
    <2>2. <<wcmd>> \in Seq(Any) /\ Range(<<wcmd>>) = {wcmd}
      BY <2>1 DEF Range
    <2>3. <<>> \in Seq(Any) /\ Range(<<>>) = {}
      BY EmptySeq, RangeEmpty
    <2> QED
      BY <2>2, <2>3 DEF InHand
  <1>3. Asked = commands \o hand \o c2s \o server.pending
    BY DEF Asked
  <1> HIDE DEF Any, hand
  <1> DEFINE first == commands \o hand
             second == first \o c2s
  <1>4. first \in Seq(Any) /\ Range(first) = Range(commands) \cup InHand
    BY <1>1, <1>2, ConcatProperties, RangeConcatenation
  <1> HIDE DEF first
  <1>5. second \in Seq(Any) /\ Range(second) = Range(first) \cup Range(c2s)
    BY <1>1, <1>4, ConcatProperties, RangeConcatenation
  <1> HIDE DEF second
  <1>6. Asked = second \o server.pending
    BY <1>3 DEF first, second
  <1>7. Asked \in Seq(Any) /\ Range(Asked) = Range(second) \cup Range(server.pending)
    BY <1>1, <1>5, <1>6, ConcatProperties, RangeConcatenation
  <1> QED
    BY <1>4, <1>5, <1>7 DEF UnderWay, Any

\* The domain of what is under way.
LEMMA UnderWayType == TypeInv => UnderWay \subseteq Command \cup Message
  <1> SUFFICES ASSUME TypeInv PROVE UnderWay \subseteq Command \cup Message
    OBVIOUS
  <1>1. commands \in Seq(Command) /\ c2s \in Seq(Message) /\ server.pending \in Seq(Request)
    BY DEF TypeInv, TypeOK, Server
  <1>2. Range(commands) \subseteq Command /\ Range(c2s) \subseteq Message
        /\ Range(server.pending) \subseteq Request
    BY <1>1, RangeOfSeq
  <1>3. InHand \subseteq Command \cup Message
    BY DEF InHand, TypeInv, WriterHolds, Command
  <1> QED
    BY <1>2, <1>3 DEF UnderWay, Message

\* NeverStalls and BlackIsAskedFor, of the invariant's parts.
LEMMA AskedHolds ==
    ASSUME TypeInv, NEW m \in UnderWay
    PROVE  \E i \in 1 .. Len(Asked) : Asked[i] = m
  <1>1. m \in Range(Asked) /\ DOMAIN Asked = 1 .. Len(Asked)
    BY AskedRange, LenProperties
  <1> QED
    BY <1>1 DEF Range

LEMMA ScreenImplies == TypeInv /\ ScreenInv => NeverStalls /\ BlackIsAskedFor
  <1> SUFFICES ASSUME TypeInv, ScreenInv PROVE NeverStalls /\ BlackIsAskedFor
    OBVIOUS
  <1>1. NeverStalls
    BY AskedHolds DEF ScreenInv, LoopAsks, NeverStalls, Requests
  <1>2. ASSUME fb.black, Live, ~needsFull, ~UpdateComing
        PROVE  \E m \in UnderWay : AsksForAll(m)
    <2>1. rpc # "invalidate" /\ RectsLeft = <<>>
      BY <1>2 DEF ScreenInv, RectsReadInTurn, RectsLeft, UpdateComing
    <2>2. ~Clears(RectsLeft)
      BY <2>1, RangeEmpty DEF Clears
    <2>3. s2c \in Seq(ServerMessage)
      BY DEF TypeInv, TypeOK
    <2>4. ~\E m \in Range(s2c) : m.kind = "update"
      BY <1>2, <2>3, LenProperties DEF UpdateComing, Range
    <2> QED
      BY <1>2, <2>1, <2>2, <2>4 DEF ScreenInv, BlackAhead, ClearingComes
  <1>3. BlackIsAskedFor
    BY <1>2, AskedHolds DEF BlackIsAskedFor, AsksForAll, Requests
  <1> QED
    BY <1>1, <1>3

LEMMA ScreenInit == Init => ScreenInv
  <1> SUFFICES ASSUME Init PROVE ScreenInv
    OBVIOUS
  <1>1. s2c = <<>> /\ Len(s2c) = 0 /\ update.rects = <<>> /\ rpc = "idle"
    BY EmptySeq DEF Init, NoUpdate
  <1>2. TasksRunning /\ RectsReadInTurn
    BY <1>1 DEF Init, TasksRunning, RectsReadInTurn
  <1>3. SizeTold
    <2>1. RectsLeft = <<>> /\ fb.size = server.told
      BY <1>1 DEF Init, RectsLeft, Black
    <2> QED
      BY <1>1, <2>1, RangeEmpty DEF SizeTold, ToldBy
  <1>4. BlackAhead
    BY DEF Init, BlackAhead
  <1>5. LoopAsks
    <2>1. ASSUME Continuous PROVE \E m \in UnderWay : m.kind = "request"
      <3>1. commands = <<LoopRequest>> /\ LoopRequest.kind = "request"
        BY <2>1 DEF Init, LoopRequest
      <3>2. LoopRequest \in Range(commands)
        BY <3>1 DEF Range
      <3> QED
        BY <3>1, <3>2 DEF UnderWay
    <2> QED
      BY <2>1 DEF LoopAsks
  <1> QED
    BY <1>2, <1>3, <1>4, <1>5 DEF ScreenInv

LEMMA TasksNext == TypeInv /\ ScreenInv /\ [Next]_vars => (TasksRunning /\ RectsReadInTurn)'
  <1> SUFFICES ASSUME TypeInv, ScreenInv, [Next]_vars
               PROVE  (TasksRunning /\ RectsReadInTurn)'
    OBVIOUS
  <1> USE DEF innerVars, lifeVars, screenVars, countVars, clientVars, writerVars,
              readerVars, callerVars, externalVars, wireVars, serverVars,
              ScreenInv, TasksRunning, RectsReadInTurn
  <1>1. dying \in [Actors -> Phases] /\ update \in Update
    BY DEF TypeInv, TypeOK
  <1>2. NoUpdate.rects = <<>>
    BY DEF NoUpdate
  <1>3. ASSUME UNCHANGED <<connected, shutdown, dying, wpc, rpc, update, link>>
        PROVE  (TasksRunning /\ RectsReadInTurn)'
    BY <1>3
  <1>4. ASSUME NEW a \in Actors, MarkDead(a) PROVE (TasksRunning /\ RectsReadInTurn)'
    BY <1>1, <1>4 DEF MarkDead, MarkDeadSwap, MarkDeadEmit, MarkDeadTell
  <1>5. CASE Close
    BY <1>1, <1>5 DEF Close, Actors
  <1>6. CASE WriterStep
    <2>1. CASE WriterTakes \/ WriterReadsSize \/ WriterWrites
      BY <2>1 DEF WriterTakes, WriterReadsSize, WriterWrites
    <2>2. CASE WriterFails
      BY <1>1, <2>2 DEF WriterFails, Actors
    <2>3. CASE WriterStops \/ WriterHalfCloses
      BY <2>3 DEF WriterStops, WriterHalfCloses, Actors
    <2> QED
      BY <1>6, <2>1, <2>2, <2>3 DEF WriterStep
  <1>7. CASE ReaderStep
    <2>1. CASE BeginUpdate \/ PaintRect \/ ResizeRect \/ ResizeInvalidates \/ ResizeAnnounces
      BY <2>1 DEF BeginUpdate, PaintRect, NextRectIs, ResizeRect, ResizeInvalidates,
                  ResizeAnnounces
    <2>2. CASE AnswerAll \/ ReaderAdmits \/ ReaderPushes
      <3>1. /\ UNCHANGED <<connected, shutdown, dying, wpc, link>> /\ update.rects = <<>>
            /\ rpc' \in {"admit", "push", "number", "idle"}
            /\ update' \in {update, NoUpdate}
        BY <2>2 DEF AnswerAll, ReaderAdmits, ReaderPushes, AfterRequest
      <3> QED
        BY <1>2, <3>1
    <2>3. CASE NumberPaint \/ MarkPainted \/ PublishPainted \/ ReadNotice
      BY <1>2, <2>3 DEF NumberPaint, MarkPainted, PublishPainted, ReadNotice
    <2>4. CASE ReaderFails
      BY <1>1, <1>2, <2>4 DEF ReaderFails, Actors
    <2>5. CASE ReaderStops
      BY <1>2, <2>5 DEF ReaderStops, Actors
    <2> QED
      BY <1>7, <2>1, <2>2, <2>3, <2>4, <2>5 DEF ReaderStep
  <1>8. ASSUME NEW c \in Callers, Begin(c) \/ CallerStep(c) \/ RefreshTimesOut(c)
        PROVE  (TasksRunning /\ RectsReadInTurn)'
    BY <1>3, <1>8 DEF Begin, CallerStep, LoadFloor, CallerAdmits, CallerPushes,
                RefreshReceives, TakeFrame, RefreshTimesOut
  <1>9. CASE DesktopChanges \/ ServerReads \/ ServerAnswers \/ ServerNotices \/ LinkBreaks
    <2>1. UNCHANGED <<connected, shutdown, dying, wpc, rpc, update>> /\ link' \in {link, "down"}
      BY <1>9 DEF DesktopChanges, ServerReads, ServerAnswers, ServerNotices, LinkBreaks
    <2> QED
      BY <2>1
  <1>10. CASE UNCHANGED vars
    BY <1>3, <1>10 DEF vars
  <1> QED
    BY <1>4, <1>5, <1>6, <1>7, <1>8, <1>9, <1>10 DEF Next

\* A message joins the stream: an update that resizes is the first to tell a new
\* size.
LEMMA StreamGrows ==
    ASSUME TypeInv, ScreenInv, NEW m \in ServerMessage, s2c' = Append(s2c, m),
           UNCHANGED <<rpc, update, fb>>,
           m.kind = "update" => ToldBy(m.rects)',
           server'.told # server.told => m.kind = "update" /\ Resizes(m.rects)
    PROVE  SizeTold'
  <1>1. s2c \in Seq(ServerMessage) /\ Len(s2c) \in Nat
    BY LenProperties DEF TypeInv, TypeOK
  <1>2. /\ Len(s2c') = Len(s2c) + 1
        /\ \A i \in 1 .. Len(s2c) : s2c'[i] = s2c[i]
        /\ s2c'[Len(s2c) + 1] = m
    BY <1>1, AppendProperties
  <1>3. CASE m.kind = "update" /\ Resizes(m.rects)
    <2>1. \A i \in 0 .. Len(s2c) : ResizingAfter(i)'
      BY <1>1, <1>2, <1>3 DEF ResizingAfter, Resizes
    <2>2. ASSUME NEW i \in 1 .. Len(s2c'), s2c'[i].kind = "update"
          PROVE  ResizingAfter(i)' \/ ToldBy(s2c[i].rects)'
      <3>1. CASE i \in 1 .. Len(s2c)
        BY <1>1, <2>1, <3>1
      <3>2. CASE i = Len(s2c) + 1
        BY <1>2, <1>3, <3>2 DEF ToldBy
      <3> QED
        BY <1>1, <1>2, <3>1, <3>2
    <2> QED
      BY <1>1, <2>1, <2>2 DEF SizeTold
  <1>4. CASE ~(m.kind = "update" /\ Resizes(m.rects))
    <2>1. server'.told = server.told
      BY <1>4
    <2>2. \A i \in 0 .. Len(s2c) : ResizingAfter(i) => ResizingAfter(i)'
      BY <1>1, <1>2 DEF ResizingAfter, Resizes
    <2>3. \A rs : ToldBy(rs)' <=> ToldBy(rs)
      BY <2>1 DEF ToldBy
    <2>4. ASSUME NEW i \in 1 .. Len(s2c'), s2c'[i].kind = "update"
          PROVE  ResizingAfter(i)' \/ ToldBy(s2c[i].rects)'
      <3>1. CASE i \in 1 .. Len(s2c)
        BY <1>1, <1>2, <2>2, <2>4, <3>1, <2>1 DEF ScreenInv, SizeTold, ToldBy
      <3>2. CASE i = Len(s2c) + 1
        BY <1>2, <2>4, <3>2 DEF ToldBy
      <3> QED
        BY <1>1, <1>2, <3>1, <3>2
    <2>5. rpc' = rpc /\ RectsLeft' = RectsLeft /\ fb' = fb
      BY DEF RectsLeft
    <2> QED
      BY <1>1, <2>1, <2>2, <2>4, <2>5 DEF ScreenInv, SizeTold, ToldBy, Resizes
  <1> QED
    BY <1>3, <1>4

\* The read loop takes the next message.
LEMMA StreamShifts ==
    ASSUME TypeInv, s2c # <<>>, s2c' = Tail(s2c)
    PROVE  /\ Len(s2c) \in Nat \ {0} /\ Len(s2c') = Len(s2c) - 1
           /\ Head(s2c) = s2c[1] /\ \A i \in 1 .. Len(s2c') : s2c'[i] = s2c[i + 1]
           /\ \A n \in Nat : ResizingAfter(n)' <=> ResizingAfter(n + 1)
  <1>1. s2c \in Seq(ServerMessage)
    BY DEF TypeInv, TypeOK
  <1>2. /\ Len(s2c) \in Nat \ {0} /\ Len(s2c') = Len(s2c) - 1
        /\ Head(s2c) = s2c[1] /\ \A i \in 1 .. Len(s2c') : s2c'[i] = s2c[i + 1]
    BY <1>1, EmptySeq, HeadTailProperties
  <1>3. ASSUME NEW n \in Nat, ResizingAfter(n)' PROVE ResizingAfter(n + 1)
    <2>1. PICK j \in 1 .. Len(s2c') : j > n /\ s2c'[j].kind = "update" /\ Resizes(s2c'[j].rects)
      BY <1>3 DEF ResizingAfter, Resizes
    <2>2. j + 1 \in 1 .. Len(s2c) /\ j + 1 > n + 1 /\ s2c[j + 1] = s2c'[j]
      BY <1>2, <2>1
    <2> QED
      BY <2>1, <2>2 DEF ResizingAfter
  <1>4. ASSUME NEW n \in Nat, ResizingAfter(n + 1) PROVE ResizingAfter(n)'
    <2>1. PICK j \in 1 .. Len(s2c) : j > n + 1 /\ s2c[j].kind = "update" /\ Resizes(s2c[j].rects)
      BY <1>4 DEF ResizingAfter
    <2>2. j - 1 \in 1 .. Len(s2c') /\ j - 1 > n /\ s2c'[j - 1] = s2c[j]
      BY <1>2, <2>1
    <2> QED
      BY <2>1, <2>2 DEF ResizingAfter, Resizes
  <1> QED
    BY <1>2, <1>3, <1>4

\* The rect the read loop has in hand is the first of those left.
LEMMA RectsShift ==
    ASSUME TypeInv, update.rects # <<>>
    PROVE  /\ update.rects \in Seq(Rect) /\ Tail(update.rects) \in Seq(Rect)
           /\ Head(update.rects) \in Rect
           /\ Range(update.rects) = {Head(update.rects)} \cup Range(Tail(update.rects))
  <1>1. update.rects \in Seq(Rect)
    BY DEF TypeInv, TypeOK, Update
  <1> QED
    BY <1>1, HeadTailProperties, RangeTail

LEMMA SizeNext == TypeInv /\ ScreenInv /\ [Next]_vars => SizeTold'
  <1> SUFFICES ASSUME TypeInv, ScreenInv, [Next]_vars PROVE SizeTold'
    OBVIOUS
  <1> USE DEF innerVars, lifeVars, screenVars, countVars, clientVars, writerVars,
              readerVars, callerVars, externalVars, wireVars, serverVars
  <1>0. SizeTold /\ RectsReadInTurn
    BY DEF ScreenInv
  <1>a. server \in Server /\ update \in Update /\ fb \in Framebuffer
    BY DEF TypeInv, TypeOK
  <1>b. NoUpdate.rects = <<>> /\ ToldBy(<<>>) /\ ~Resizes(<<>>)
    BY RangeEmpty DEF NoUpdate, ToldBy, Resizes
  <1>c. ASSUME UNCHANGED <<s2c, server>>
        PROVE  /\ \A rs : (ToldBy(rs)' <=> ToldBy(rs)) /\ (Resizes(rs)' <=> Resizes(rs))
               /\ \A n : ResizingAfter(n)' <=> ResizingAfter(n)
    BY <1>c DEF ToldBy, Resizes, ResizingAfter
  <1>d. ASSUME UNCHANGED <<s2c, server>>,
               \/ rpc' \in {"failed", "gone"}
               \/ RectsLeft' = RectsLeft /\ fb'.size = fb.size /\ rpc \notin {"failed", "gone"}
        PROVE  SizeTold'
    <2>1. \A i \in 1 .. Len(s2c') : s2c'[i].kind = "update" => 
             ResizingAfter(i)' \/ ToldBy(s2c[i].rects)'
      BY <1>0, <1>c, <1>d DEF SizeTold
    <2>2. CASE rpc' \in {"failed", "gone"}
      BY <2>1, <2>2 DEF SizeTold
    <2>3. CASE RectsLeft' = RectsLeft /\ fb'.size = fb.size /\ rpc \notin {"failed", "gone"}
      <3>1. ~ResizingAfter(0)' => ToldBy(RectsLeft) /\ (Resizes(RectsLeft) \/ fb'.size = server'.told)
        BY <1>0, <1>c, <1>d, <2>3 DEF SizeTold
      <3>2. ~ResizingAfter(0)' => ToldBy(RectsLeft)' /\ (Resizes(RectsLeft)' \/ fb'.size = server'.told)
        BY <3>1, <2>3, <1>c, <1>d DEF ToldBy, Resizes
      <3> QED
        BY <2>1, <3>2 DEF SizeTold
    <2> QED
      BY <1>d, <2>2, <2>3
  <1>e. ASSUME UNCHANGED <<s2c, server, fb, rpc, update>> PROVE SizeTold'
    <2>1. CASE rpc \in {"failed", "gone"}
      BY <1>d, <1>e, <2>1
    <2>2. CASE rpc \notin {"failed", "gone"}
      BY <1>d, <1>e, <2>2 DEF RectsLeft
    <2> QED
      BY <2>1, <2>2
  <1>1. CASE BeginUpdate
    <2>1. /\ rpc = "idle" /\ s2c # <<>> /\ s2c' = Tail(s2c) /\ Head(s2c).kind = "update"
          /\ update'.rects = Head(s2c).rects /\ rpc' = "rects" /\ UNCHANGED <<fb, server>>
      BY <1>1 DEF BeginUpdate, NoUpdate
    <2>2. RectsLeft = <<>> /\ RectsLeft' = s2c[1].rects
      <3>1. RectsLeft = <<>>
        BY <1>0, <2>1 DEF RectsReadInTurn, RectsLeft
      <3>2. Head(s2c) = s2c[1]
        BY <2>1, StreamShifts
      <3> QED
        BY <2>1, <3>1, <3>2 DEF RectsLeft
    <2>3. \A rs : ToldBy(rs)' <=> ToldBy(rs)
      BY <2>1 DEF ToldBy
    <2>4. \A i \in 1 .. Len(s2c') : s2c'[i].kind = "update" =>
             ResizingAfter(i)' \/ ToldBy(s2c'[i].rects)
      <3> SUFFICES ASSUME NEW i \in 1 .. Len(s2c'), s2c'[i].kind = "update"
                   PROVE  ResizingAfter(i)' \/ ToldBy(s2c'[i].rects)
        OBVIOUS
      <3>1. i + 1 \in 1 .. Len(s2c) /\ s2c'[i] = s2c[i + 1] /\ i \in Nat
        BY <2>1, StreamShifts
      <3>2. ResizingAfter(i + 1) \/ ToldBy(s2c'[i].rects)
        BY <1>0, <3>1 DEF SizeTold
      <3> QED
        BY <2>1, <3>1, <3>2, StreamShifts
    <2>5. ASSUME ~ResizingAfter(0)'
          PROVE  ToldBy(s2c[1].rects) /\ (Resizes(s2c[1].rects) \/ fb.size = server.told)
      <3>1. ~ResizingAfter(1) /\ 1 \in 1 .. Len(s2c) /\ s2c[1].kind = "update"
        <4>1. ResizingAfter(0)' <=> ResizingAfter(0 + 1)
          BY <2>1, StreamShifts
        <4>2. Len(s2c) \in Nat \ {0} /\ Head(s2c) = s2c[1]
          BY <2>1, StreamShifts
        <4> QED
          BY <2>1, <2>5, <4>1, <4>2
      <3>2. ToldBy(s2c[1].rects)
        BY <1>0, <3>1 DEF SizeTold
      <3>3. Resizes(s2c[1].rects) \/ ~ResizingAfter(0)
        <4> SUFFICES ASSUME ResizingAfter(0) PROVE Resizes(s2c[1].rects)
          OBVIOUS
        <4>1. PICK j \in 1 .. Len(s2c) : s2c[j].kind = "update" /\ Resizes(s2c[j].rects)
          BY DEF ResizingAfter
        <4>2. ~(j > 1)
          BY <3>1, <4>1 DEF ResizingAfter
        <4>3. j = 1
          BY <4>2
        <4> QED
          BY <4>1, <4>3
      <3>4. ~ResizingAfter(0) => fb.size = server.told
        BY <1>0, <1>b, <2>1, <2>2 DEF SizeTold
      <3> QED
        BY <3>2, <3>3, <3>4
    <2>6. ~ResizingAfter(0)' => ToldBy(RectsLeft)' /\ (Resizes(RectsLeft)' \/ fb'.size = server'.told)
      BY <2>1, <2>2, <2>5 DEF ToldBy, Resizes
    <2>7. \A i \in 1 .. Len(s2c') : s2c'[i].kind = "update" =>
             (ResizingAfter(i) \/ ToldBy(s2c[i].rects))'
      BY <2>1, <2>4 DEF ToldBy
    <2> QED
      BY <2>6, <2>7 DEF SizeTold
  <1>2. CASE PaintRect
    <2>1. /\ NextRectIs("paint") /\ update'.rects = Tail(update.rects) /\ fb'.size = fb.size
          /\ rpc = "rects" /\ rpc' = rpc /\ UNCHANGED <<s2c, server>>
      BY <1>2, <1>a DEF PaintRect, NextRectIs, Update, Framebuffer
    <2>2. /\ Range(update.rects) = {Head(update.rects)} \cup Range(Tail(update.rects))
          /\ Head(update.rects).kind = "paint" /\ RectsLeft = update.rects
          /\ RectsLeft' = Tail(update.rects)
      BY <2>1, RectsShift DEF NextRectIs, RectsLeft
    <2>3. /\ ToldBy(RectsLeft) => ToldBy(Tail(update.rects))
          /\ Resizes(RectsLeft) => Resizes(Tail(update.rects))
      BY <2>2 DEF ToldBy, Resizes
    <2>4. ~ResizingAfter(0)' => ToldBy(RectsLeft)' /\ (Resizes(RectsLeft)' \/ fb'.size = server'.told)
      <3>1. ~ResizingAfter(0)' => ToldBy(RectsLeft) /\ (Resizes(RectsLeft) \/ fb.size = server.told)
        BY <1>0, <1>c, <2>1 DEF SizeTold
      <3> QED
        BY <2>1, <2>2, <2>3, <3>1 DEF ToldBy, Resizes
    <2>5. \A i \in 1 .. Len(s2c') : s2c'[i].kind = "update" =>
             (ResizingAfter(i) \/ ToldBy(s2c[i].rects))'
      BY <1>0, <1>c, <2>1 DEF SizeTold, ToldBy
    <2> QED
      BY <2>4, <2>5 DEF SizeTold
  <1>3. CASE ResizeRect
    <2>1. /\ NextRectIs("resize") /\ UNCHANGED <<update, s2c, server>>
          /\ fb'.size = Head(update.rects).size /\ rpc = "rects" /\ rpc' = "invalidate"
      BY <1>3 DEF ResizeRect, NextRectIs, Black
    <2>2. /\ Range(update.rects) = {Head(update.rects)} \cup Range(Tail(update.rects))
          /\ Head(update.rects).kind = "resize" /\ RectsLeft = update.rects
          /\ RectsLeft' = Tail(update.rects)
      BY <2>1, RectsShift DEF NextRectIs, RectsLeft
    <2>3. ToldBy(RectsLeft) => ToldBy(Tail(update.rects)) /\ fb'.size = server.told
      BY <2>1, <2>2 DEF ToldBy
    <2>4. ~ResizingAfter(0)' => ToldBy(RectsLeft)' /\ (Resizes(RectsLeft)' \/ fb'.size = server'.told)
      BY <1>0, <1>c, <2>1, <2>2, <2>3 DEF SizeTold, ToldBy
    <2>5. \A i \in 1 .. Len(s2c') : s2c'[i].kind = "update" =>
             (ResizingAfter(i) \/ ToldBy(s2c[i].rects))'
      BY <1>0, <1>c, <2>1 DEF SizeTold, ToldBy
    <2> QED
      BY <2>4, <2>5 DEF SizeTold
  <1>4. CASE ResizeInvalidates \/ ResizeAnnounces
    <2>1. /\ UNCHANGED <<s2c, server, fb>> /\ rpc \notin {"failed", "gone"}
          /\ RectsLeft' = RectsLeft
      BY <1>4, <1>a DEF ResizeInvalidates, ResizeAnnounces, RectsLeft, Update
    <2> QED
      BY <1>d, <2>1
  <1>5. CASE \/ AnswerAll \/ ReaderAdmits \/ ReaderPushes
             \/ NumberPaint \/ MarkPainted \/ PublishPainted
    <2>1. /\ UNCHANGED <<s2c, server, fb>> /\ rpc \notin {"failed", "gone"}
          /\ update.rects = <<>> /\ update' \in {update, NoUpdate}
          /\ rpc \notin {"invalidate", "announce"} /\ rpc' \notin {"invalidate", "announce"}
      BY <1>5, <1>0 DEF AnswerAll, ReaderAdmits, ReaderPushes, NumberPaint, MarkPainted,
                   PublishPainted, AfterRequest, RectsReadInTurn
    <2>2. RectsLeft' = RectsLeft
      BY <1>b, <2>1 DEF RectsLeft
    <2> QED
      BY <1>d, <2>1, <2>2
  <1>6. CASE ReadNotice
    <2>1. /\ s2c # <<>> /\ s2c' = Tail(s2c) /\ Head(s2c).kind # "update"
          /\ UNCHANGED <<fb, server, rpc, update>>
      BY <1>6 DEF ReadNotice
    <2>2. ResizingAfter(0) => ResizingAfter(1)
      <3> SUFFICES ASSUME ResizingAfter(0) PROVE ResizingAfter(1)
        OBVIOUS
      <3>1. PICK j \in 1 .. Len(s2c) : s2c[j].kind = "update" /\ Resizes(s2c[j].rects)
        BY DEF ResizingAfter
      <3>2. j # 1
        BY <2>1, <3>1, StreamShifts
      <3>3. j > 1
        BY <3>2
      <3> QED
        BY <3>1, <3>3 DEF ResizingAfter
    <2>3. ~ResizingAfter(0)' => ~ResizingAfter(0)
      BY <2>1, <2>2, StreamShifts
    <2>4. \A i \in 1 .. Len(s2c') : s2c'[i].kind = "update" =>
             ResizingAfter(i)' \/ ToldBy(s2c'[i].rects)
      <3> SUFFICES ASSUME NEW i \in 1 .. Len(s2c'), s2c'[i].kind = "update"
                   PROVE  ResizingAfter(i)' \/ ToldBy(s2c'[i].rects)
        OBVIOUS
      <3>1. i + 1 \in 1 .. Len(s2c) /\ s2c'[i] = s2c[i + 1] /\ i \in Nat
        BY <2>1, StreamShifts
      <3>2. ResizingAfter(i + 1) \/ ToldBy(s2c'[i].rects)
        BY <1>0, <3>1 DEF SizeTold
      <3> QED
        BY <2>1, <3>1, <3>2, StreamShifts
    <2>5. RectsLeft' = RectsLeft
      BY <2>1 DEF RectsLeft
    <2>6. /\ \A i \in 1 .. Len(s2c') : s2c'[i].kind = "update" =>
               (ResizingAfter(i) \/ ToldBy(s2c[i].rects))'
          /\ rpc' \notin {"failed", "gone"} /\ ~ResizingAfter(0)' =>
               (ToldBy(RectsLeft) /\ (Resizes(RectsLeft) \/ fb.size = server.told))'
      BY <1>0, <2>1, <2>3, <2>4, <2>5 DEF SizeTold, ToldBy, Resizes
    <2> QED
      BY <2>6 DEF SizeTold
  <1>7. CASE ReaderFails \/ ReaderStops
    BY <1>7, <1>d DEF ReaderFails, ReaderStops
  <1>8. ASSUME NEW c \in Callers, Begin(c) \/ CallerStep(c) \/ RefreshTimesOut(c)
        PROVE  SizeTold'
    BY <1>e, <1>8 DEF Begin, CallerStep, LoadFloor, CallerAdmits, CallerPushes,
                RefreshReceives, TakeFrame, RefreshTimesOut
  <1>9. ASSUME NEW a \in Actors, MarkDead(a) PROVE SizeTold'
    BY <1>e, <1>9 DEF MarkDead, MarkDeadSwap, MarkDeadEmit, MarkDeadTell
  <1>10. CASE Close \/ WriterStep
    BY <1>e, <1>10 DEF Close, WriterStep, WriterTakes, WriterReadsSize, WriterWrites,
                 WriterFails, WriterStops, WriterHalfCloses
  <1>11. CASE DesktopChanges \/ ServerReads \/ LinkBreaks
    <2>1. UNCHANGED <<s2c, fb, rpc, update>> /\ server'.told = server.told
      BY <1>11, <1>a DEF DesktopChanges, ServerReads, LinkBreaks, Server
    <2>2. /\ \A rs : ToldBy(rs)' <=> ToldBy(rs)
          /\ \A n : ResizingAfter(n)' <=> ResizingAfter(n)
          /\ RectsLeft' = RectsLeft
      BY <2>1 DEF ToldBy, Resizes, ResizingAfter, RectsLeft
    <2>3. /\ \A i \in 1 .. Len(s2c) : s2c[i].kind = "update" =>
               ResizingAfter(i)' \/ ToldBy(s2c[i].rects)
          /\ rpc' \notin {"failed", "gone"} /\ ~ResizingAfter(0)' =>
               ToldBy(RectsLeft) /\ (Resizes(RectsLeft) \/ fb'.size = server'.told)
      BY <1>0, <2>1, <2>2 DEF SizeTold
    <2>4. /\ \A i \in 1 .. Len(s2c') : s2c'[i].kind = "update" =>
               (ResizingAfter(i) \/ ToldBy(s2c[i].rects))'
          /\ rpc' \notin {"failed", "gone"} /\ ~ResizingAfter(0)' =>
               ToldBy(RectsLeft)' /\ (Resizes(RectsLeft) \/ fb.size = server.told)'
      BY <2>1, <2>2, <2>3 DEF ToldBy, Resizes
    <2> QED
      BY <2>4 DEF SizeTold
  <1>12. CASE ServerAnswers
    <2>1. PICK whole \in BOOLEAN :
            \E rs \in Composed(whole) : s2c' = Append(s2c, [kind |-> "update", rects |-> rs])
      BY <1>12 DEF ServerAnswers
    <2>2. PICK rs \in Composed(whole) : s2c' = Append(s2c, [kind |-> "update", rects |-> rs])
      BY <2>1
    <2>3. server'.told = server.size /\ UNCHANGED <<fb, rpc, update>>
      BY <1>12, <1>a DEF ServerAnswers, Server
    <2>4. rs \in Seq(Rect) /\ \A r \in Range(rs) : r.kind = "resize" => r.size = server.size
      <3> DEFINE paint == [kind |-> "paint", whole |-> whole]
                 resize == [kind |-> "resize", size |-> server.size]
      <3>1. paint \in Rect /\ resize \in Rect
        BY <1>a DEF Rect, Server
      <3>2. rs \in {<<paint>>, <<resize>>, <<paint, resize>>, <<resize, paint>>}
        BY <2>2 DEF Composed
      <3>3. paint.kind = "paint" /\ resize.size = server.size
        OBVIOUS
      <3> HIDE DEF paint, resize
      <3>4. rs \in Seq(Rect)
        <4> DEFINE R == Rect
        <4>1. paint \in R /\ resize \in R
          BY <3>1
        <4> HIDE DEF R
        <4>2. <<paint>> \in Seq(R) /\ <<resize>> \in Seq(R)
          BY <4>1
        <4>3. <<paint, resize>> \in Seq(R) /\ <<resize, paint>> \in Seq(R)
          BY <4>1
        <4> QED
          BY <3>2, <4>2, <4>3 DEF R
      <3>5. Range(rs) \subseteq {paint, resize}
        BY <3>2 DEF Range
      <3>6. paint.kind # "resize"
        BY <3>3
      <3> QED
        BY <3>3, <3>4, <3>5, <3>6
    <2>5. server.size # server.told => Resizes(rs)
      <3> DEFINE paint == [kind |-> "paint", whole |-> whole]
                 resize == [kind |-> "resize", size |-> server.size]
      <3>1. server.size # server.told => rs \in {<<resize>>, <<paint, resize>>, <<resize, paint>>}
        BY <2>2 DEF Composed
      <3>2. resize.kind = "resize"
        OBVIOUS
      <3> HIDE DEF paint, resize
      <3> QED
        BY <3>1, <3>2 DEF Resizes, Range
    <2>6. [kind |-> "update", rects |-> rs] \in ServerMessage
      BY <2>4 DEF ServerMessage
    <2> DEFINE m == [kind |-> "update", rects |-> rs]
    <2>7. m.kind = "update" /\ m.rects = rs
      OBVIOUS
    <2>8. ToldBy(m.rects)' /\ (server'.told # server.told => Resizes(m.rects))
      BY <2>3, <2>4, <2>5, <2>7 DEF ToldBy
    <2> HIDE DEF m
    <2> QED
      BY <2>2, <2>3, <2>6, <2>7, <2>8, StreamGrows DEF m
  <1>13. CASE ServerNotices
    <2>1. PICK kind \in {"bell", "cutText", "malformed"} : s2c' = Append(s2c, [kind |-> kind])
      BY <1>13 DEF ServerNotices
    <2>2. [kind |-> kind] \in ServerMessage /\ [kind |-> kind].kind # "update"
      BY DEF ServerMessage
    <2>3. UNCHANGED <<fb, rpc, update, server>>
      BY <1>13 DEF ServerNotices
    <2> QED
      BY <2>1, <2>2, <2>3, StreamGrows
  <1>14. CASE UNCHANGED vars
    BY <1>14, <1>e DEF vars
  <1> QED
    BY <1>1, <1>2, <1>3, <1>4, <1>5, <1>6, <1>7, <1>8, <1>9, <1>10, <1>11, <1>12, <1>13,
       <1>14 DEF Next, ReaderStep

\* The members of a stream by place and as a set.
LEMMA UpdateInStream ==
    ASSUME NEW s \in Seq(ServerMessage)
    PROVE  (\E i \in 1 .. Len(s) : s[i].kind = "update") <=> \E m \in Range(s) : m.kind = "update"
  BY LenProperties DEF Range

\* A step that leaves the framebuffer and the read loop alone, loses no update
\* and, while the session lives, no request.
LEMMA AsksKept ==
    ASSUME TypeInv, TypeInv', LoopAsks, BlackAhead,
           UNCHANGED <<fb, needsFull, rpc, update>>, Range(s2c) \subseteq Range(s2c'),
           Live' => Live,
           Live' => \A m \in UnderWay : m.kind = "request" => m \in UnderWay'
    PROVE  (LoopAsks /\ BlackAhead)'
  <1>1. s2c \in Seq(ServerMessage) /\ s2c' \in Seq(ServerMessage)
    BY DEF TypeInv, TypeOK
  <1>2. UpdateComing => UpdateComing'
    BY <1>1, UpdateInStream DEF UpdateComing
  <1>3. ClearingComes => ClearingComes'
    BY DEF ClearingComes, Clears, RectsLeft
  <1>4. \A m : AsksForAll(m)' <=> AsksForAll(m)
    BY DEF AsksForAll
  <1>5. \A m : AsksForAll(m) => m.kind = "request"
    BY DEF AsksForAll
  <1> QED
    BY <1>2, <1>3, <1>4, <1>5 DEF LoopAsks, BlackAhead

\* The whole request build_request makes of one that asks for everything, or of
\* any request when the baseline is gone.
LEMMA RequestTaken ==
    ASSUME NEW r \in [kind : {"request"}, incremental : BOOLEAN, from : Origin],
           needsFull \/ ~r.incremental, needsFull \in BOOLEAN
    PROVE  /\ [r EXCEPT !.incremental = @ /\ ~needsFull].kind = "request"
           /\ ~[r EXCEPT !.incremental = @ /\ ~needsFull].incremental
           /\ "area" \notin DOMAIN [r EXCEPT !.incremental = @ /\ ~needsFull]
  OBVIOUS

LEMMA AsksWriter ==
    ASSUME TypeInv, TypeInv', ScreenInv, TasksRunning', WriterStep
    PROVE  (LoopAsks /\ BlackAhead)'
  <1> USE DEF innerVars, lifeVars, screenVars, countVars, clientVars, writerVars,
              readerVars, callerVars, externalVars, wireVars, serverVars
  <1>0. LoopAsks /\ BlackAhead
    BY DEF ScreenInv
  <1>a. /\ commands \in Seq(Command) /\ c2s \in Seq(Message) /\ needsFull \in BOOLEAN
        /\ wpc = "size" => wcmd \in [kind : {"request"}, incremental : BOOLEAN, from : Origin]
        /\ wpc = "write" => wcmd \in Message
        /\ fb \in Framebuffer
    BY DEF TypeInv, TypeOK, WriterHolds
  <1>1. CASE WriterTakes
    <2>1. /\ commands # <<>> /\ commands' = Tail(commands) /\ wpc = "recv"
          /\ UNCHANGED <<fb, rpc, update, s2c, c2s, server, connected, link>>
      BY <1>1 DEF WriterTakes
    <2>2. Range(commands) = {Head(commands)} \cup Range(commands') /\ Head(commands) \in Command
      BY <1>a, <2>1, RangeTail, HeadTailProperties
    <2>3. InHand = {} /\ InHand' = {wcmd'}
      BY <1>1 DEF WriterTakes, InHand
    <2>4. UnderWay \subseteq {Head(commands)} \cup UnderWay' /\ wcmd' \in UnderWay'
      BY <2>1, <2>2, <2>3 DEF UnderWay
    <2>5. CASE Head(commands).kind = "write"
      <3>1. needsFull' = needsFull
        BY <1>1, <2>5 DEF WriterTakes
      <3>2. \A m \in UnderWay : m.kind = "request" => m \in UnderWay'
        BY <2>4, <2>5
      <3> QED
        BY <1>0, <2>1, <3>1, <3>2, AsksKept DEF Live
    <2>6. CASE Head(commands).kind = "request"
      <3>1. wcmd' = [Head(commands) EXCEPT !.incremental = @ /\ ~needsFull]
        BY <1>1, <2>6 DEF WriterTakes
      <3>2. Head(commands) \in [kind : {"request"}, incremental : BOOLEAN, from : Origin]
        BY <2>2, <2>6 DEF Command
      <3>3. LoopAsks'
        <4>1. wcmd'.kind = "request"
          BY <3>1, <3>2
        <4> QED
          BY <2>4, <4>1 DEF LoopAsks
      <3>4. ClearingComes => ClearingComes'
        BY <2>1 DEF ClearingComes, Clears, RectsLeft
      <3>5. \A m : AsksForAll(m)' <=> AsksForAll(m)
        BY <2>1 DEF AsksForAll
      <3>6. needsFull \/ AsksForAll(Head(commands)) => AsksForAll(wcmd')
        BY <1>a, <3>1, <3>2, RequestTaken DEF AsksForAll
      <3>7. BlackAhead'
        BY <1>0, <2>1, <2>4, <3>4, <3>5, <3>6 DEF BlackAhead, Live
      <3> QED
        BY <3>3, <3>7
    <2> QED
      BY <2>2, <2>5, <2>6 DEF Command
  <1>2. CASE WriterReadsSize
    <2>1. /\ wcmd' = [kind |-> "request", incremental |-> wcmd.incremental,
                      from |-> wcmd.from, area |-> fb.size]
          /\ UNCHANGED <<fb, needsFull, rpc, update, s2c, c2s, server, connected, link, commands>>
          /\ wpc = "size"
      BY <1>2 DEF WriterReadsSize
    <2>2. InHand = {wcmd} /\ InHand' = {wcmd'}
      BY <1>2 DEF WriterReadsSize, InHand
    <2>3. UnderWay \subseteq {wcmd} \cup UnderWay' /\ wcmd' \in UnderWay'
      BY <2>1, <2>2 DEF UnderWay
    <2>4. LoopAsks'
      BY <2>1, <2>3 DEF LoopAsks
    <2>5. ClearingComes => ClearingComes'
      BY <2>1 DEF ClearingComes, Clears, RectsLeft
    <2>6. \A m : AsksForAll(m)' <=> AsksForAll(m)
      BY <2>1 DEF AsksForAll
    <2>7. AsksForAll(wcmd) => AsksForAll(wcmd')
      <3>1. wcmd'.area = fb.size /\ fb.size \in Nat
        BY <1>a, <2>1 DEF Framebuffer
      <3> QED
        BY <2>1, <3>1 DEF AsksForAll
    <2>8. BlackAhead'
      BY <1>0, <2>1, <2>3, <2>5, <2>6, <2>7 DEF BlackAhead, Live
    <2> QED
      BY <2>4, <2>8
  <1>3. CASE WriterWrites
    <2>1. /\ UNCHANGED <<fb, needsFull, rpc, update, s2c, server, connected, link, commands>>
          /\ wpc = "write" /\ (link = "up" => c2s' = Append(c2s, wcmd))
      BY <1>3 DEF WriterWrites
    <2>2. InHand = {wcmd}
      BY <1>3 DEF WriterWrites, InHand
    <2>3. link = "up" => UnderWay \subseteq UnderWay'
      <3>1. link = "up" => Range(c2s') = Range(c2s) \cup {wcmd}
        <4>1. c2s \in Seq(Message) /\ wcmd \in Message
          BY <1>a, <2>1
        <4>2. Range(Append(c2s, wcmd)) = Range(c2s) \cup {wcmd}
          BY <4>1, RangeAppend
        <4>3. link = "up" => c2s' = Append(c2s, wcmd)
          BY <2>1
        <4> QED
          BY <4>2, <4>3
      <3> QED
        BY <2>1, <2>2, <3>1 DEF UnderWay
    <2> QED
      BY <1>0, <2>1, <2>3, AsksKept DEF Live
  <1>4. CASE WriterFails
    BY <1>4 DEF WriterFails, LoopAsks, BlackAhead, Live
  <1>5. CASE WriterStops \/ WriterHalfCloses
    <2>1. ~connected' \/ link' # "up"
      BY <1>5 DEF WriterStops, WriterHalfCloses, TasksRunning, ScreenInv
    <2> QED
      BY <2>1 DEF LoopAsks, BlackAhead, Live
  <1> QED
    BY <1>1, <1>2, <1>3, <1>4, <1>5 DEF WriterStep

LEMMA AsksReader ==
    ASSUME TypeInv, TypeInv', ScreenInv, TasksRunning', ReaderStep
    PROVE  (LoopAsks /\ BlackAhead)'
  <1> USE DEF innerVars, lifeVars, screenVars, countVars, clientVars, writerVars,
              readerVars, callerVars, externalVars, wireVars, serverVars
  <1>0. LoopAsks /\ BlackAhead /\ RectsReadInTurn /\ TasksRunning
    BY DEF ScreenInv
  <1>a. /\ s2c \in Seq(ServerMessage) /\ s2c' \in Seq(ServerMessage)
        /\ commands \in Seq(Command) /\ update \in Update /\ fb \in Framebuffer
    BY DEF TypeInv, TypeOK
  <1>b. UNCHANGED <<commands, wpc, wcmd, c2s, server>> => UnderWay' = UnderWay
    BY DEF UnderWay, InHand
  <1>c. rpc' \in {"rects", "invalidate", "announce", "admit", "push"} => LoopAsks'
    BY DEF LoopAsks, UpdateComing
  <1>d. ~Live' => (LoopAsks /\ BlackAhead)'
    BY DEF LoopAsks, BlackAhead
  <1>e. UNCHANGED fb => \A m : AsksForAll(m)' <=> AsksForAll(m)
    BY DEF AsksForAll
  <1>f. NoUpdate.rects = <<>>
    BY DEF NoUpdate
  <1>g. ASSUME s2c # <<>>, s2c' = Tail(s2c)
        PROVE  Range(s2c) = {Head(s2c)} \cup Range(s2c')
    BY <1>a, <1>g, RangeTail
  <1>1. CASE BeginUpdate
    <2>1. /\ rpc = "idle" /\ s2c # <<>> /\ s2c' = Tail(s2c) /\ rpc' = "rects"
          /\ update'.rects = Head(s2c).rects
          /\ UNCHANGED <<fb, needsFull, commands, wpc, wcmd, c2s, server, connected, link>>
      BY <1>1 DEF BeginUpdate, NoUpdate
    <2>2. RectsLeft = <<>> /\ RectsLeft' = Head(s2c).rects
      BY <1>0, <2>1 DEF RectsLeft, RectsReadInTurn
    <2>3. ~Clears(<<>>)
      BY RangeEmpty DEF Clears
    <2>4. ClearingComes => ClearingComes'
      BY <1>g, <2>1, <2>2, <2>3 DEF ClearingComes, Clears
    <2>5. BlackAhead'
      BY <1>0, <1>b, <1>e, <2>1, <2>4 DEF BlackAhead, Live
    <2> QED
      BY <1>c, <2>1, <2>5
  <1>2. CASE PaintRect
    <2>1. /\ rpc = "rects" /\ rpc' = "rects" /\ update.rects # <<>>
          /\ update'.rects = Tail(update.rects) /\ Head(update.rects).kind = "paint"
          /\ fb'.black = (fb.black /\ ~Head(update.rects).whole) /\ fb'.size = fb.size
          /\ UNCHANGED <<needsFull, commands, wpc, wcmd, c2s, s2c, server, connected, link>>
      BY <1>2, <1>a DEF PaintRect, NextRectIs, Update, Framebuffer
    <2>2. RectsLeft = update.rects /\ RectsLeft' = Tail(update.rects)
      BY <2>1 DEF RectsLeft
    <2>3. ClearingComes /\ fb'.black => ClearingComes'
      <3>1. Range(update.rects) = {Head(update.rects)} \cup Range(Tail(update.rects))
        BY <2>1, RectsShift
      <3> QED
        BY <2>1, <2>2, <3>1 DEF ClearingComes, Clears
    <2>4. \A m : AsksForAll(m)' <=> AsksForAll(m)
      BY <2>1 DEF AsksForAll
    <2>5. BlackAhead'
      BY <1>0, <1>b, <2>1, <2>3, <2>4 DEF BlackAhead, Live
    <2> QED
      BY <1>c, <2>1, <2>5
  <1>3. CASE ResizeRect \/ ResizeInvalidates
    <2>1. rpc' = "invalidate" \/ (rpc' = "announce" /\ needsFull')
      BY <1>3 DEF ResizeRect, ResizeInvalidates
    <2> QED
      BY <1>c, <2>1 DEF BlackAhead
  <1>4. CASE ResizeAnnounces
    <2>1. /\ rpc = "announce" /\ rpc' = "rects" /\ update'.rects = Tail(update.rects)
          /\ UNCHANGED <<fb, needsFull, commands, wpc, wcmd, c2s, s2c, server, connected, link>>
      BY <1>4, <1>a DEF ResizeAnnounces, Update
    <2>2. RectsLeft' = RectsLeft
      BY <2>1 DEF RectsLeft
    <2>3. ClearingComes => ClearingComes'
      BY <2>1, <2>2 DEF ClearingComes, Clears
    <2>4. BlackAhead'
      BY <1>0, <1>b, <1>e, <2>1, <2>3 DEF BlackAhead, Live
    <2> QED
      BY <1>c, <2>1, <2>4
  <1>5. ASSUME UNCHANGED <<fb, needsFull, s2c, wpc, wcmd, c2s, server, connected, link>>,
               update.rects = <<>>, update' \in {update, NoUpdate},
               rpc \notin {"rects", "invalidate", "announce"} \/ rpc = "rects",
               rpc' \notin {"invalidate", "announce", "failed"}, rpc # "failed",
               Live' => UnderWay \subseteq UnderWay'
        PROVE  BlackAhead'
    <2>1. RectsLeft = <<>> /\ RectsLeft' = <<>>
      BY <1>f, <1>5 DEF RectsLeft
    <2>2. ClearingComes => ClearingComes'
      BY <1>5, <2>1 DEF ClearingComes, Clears
    <2> QED
      BY <1>0, <1>e, <1>5, <2>2 DEF BlackAhead, Live
  <1>6. CASE AnswerAll
    <2>1. /\ UNCHANGED <<fb, needsFull, s2c, wpc, wcmd, c2s, server, connected, link, commands>>
          /\ update.rects = <<>> /\ update' \in {update, NoUpdate} /\ rpc = "rects"
          /\ rpc' \in {"admit", "number", "idle"} /\ (Continuous => rpc' = "admit")
      BY <1>6 DEF AnswerAll, AfterRequest
    <2>2. BlackAhead'
      BY <1>5, <1>b, <2>1
    <2>3. LoopAsks'
      BY <1>c, <2>1 DEF LoopAsks
    <2> QED
      BY <2>2, <2>3
  <1>7. CASE ReaderAdmits
    <2>1. /\ UNCHANGED <<fb, needsFull, s2c, wpc, wcmd, c2s, server, connected, link, commands>>
          /\ update.rects = <<>> /\ update' \in {update, NoUpdate} /\ rpc = "admit"
          /\ rpc' \in {"push", "number", "idle"} /\ (connected => rpc' = "push")
      BY <1>0, <1>7 DEF ReaderAdmits, AfterRequest, RectsReadInTurn
    <2>2. BlackAhead'
      BY <1>5, <1>b, <2>1
    <2>3. LoopAsks'
      BY <1>c, <2>1 DEF LoopAsks, Live
    <2> QED
      BY <2>2, <2>3
  <1>8. CASE ReaderPushes
    <2>1. /\ UNCHANGED <<fb, needsFull, s2c, wpc, wcmd, c2s, server, connected, link>>
          /\ update.rects = <<>> /\ update' \in {update, NoUpdate} /\ rpc = "push"
          /\ rpc' \in {"number", "idle"}
          /\ commands' = IF wpc = "gone" THEN commands ELSE Append(commands, LoopRequest)
      BY <1>0, <1>8 DEF ReaderPushes, AfterRequest, RectsReadInTurn, Enqueue
    <2>2. LoopRequest \in Command /\ LoopRequest.kind = "request"
      BY DEF LoopRequest, Command, Origin
    <2>3. Live' => Range(commands') = Range(commands) \cup {LoopRequest}
      BY <1>0, <1>a, <2>1, <2>2, RangeAppend DEF TasksRunning, Live
    <2>4. Live' => UnderWay \subseteq UnderWay' /\ LoopRequest \in UnderWay'
      BY <2>1, <2>3 DEF UnderWay, InHand
    <2>5. BlackAhead'
      BY <1>5, <2>1, <2>4
    <2>6. LoopAsks'
      BY <2>2, <2>4 DEF LoopAsks
    <2> QED
      BY <2>5, <2>6
  <1>9. CASE NumberPaint \/ MarkPainted \/ PublishPainted
    <2>1. /\ UNCHANGED <<fb, needsFull, s2c, wpc, wcmd, c2s, server, connected, link, commands>>
          /\ update.rects = <<>> /\ update' \in {update, NoUpdate}
          /\ rpc \in {"number", "paint", "publish"} /\ rpc' \in {"paint", "publish", "idle"}
      BY <1>0, <1>9 DEF NumberPaint, MarkPainted, PublishPainted, RectsReadInTurn
    <2>2. BlackAhead'
      BY <1>5, <1>b, <2>1
    <2>3. LoopAsks'
      BY <1>0, <1>b, <2>1 DEF LoopAsks, Live, UpdateComing
    <2> QED
      BY <2>2, <2>3
  <1>10. CASE ReadNotice
    <2>1. /\ UNCHANGED <<fb, needsFull, wpc, wcmd, c2s, server, connected, link, commands,
                         rpc, update>>
          /\ s2c # <<>> /\ s2c' = Tail(s2c) /\ Head(s2c).kind # "update"
      BY <1>10 DEF ReadNotice
    <2>2. ClearingComes => ClearingComes'
      BY <1>g, <2>1 DEF ClearingComes, Clears, RectsLeft
    <2>3. UpdateComing => UpdateComing'
      BY <1>a, <1>g, <2>1, UpdateInStream DEF UpdateComing
    <2> QED
      BY <1>0, <1>b, <1>e, <2>1, <2>2, <2>3 DEF LoopAsks, BlackAhead, Live
  <1>11. CASE ReaderFails
    BY <1>11, <1>d DEF ReaderFails, Live
  <1>12. CASE ReaderStops
    BY <1>12, <1>d DEF ReaderStops, Live, TasksRunning
  <1> QED
    BY <1>1, <1>2, <1>3, <1>4, <1>6, <1>7, <1>8, <1>9, <1>10, <1>11, <1>12 DEF ReaderStep

\* The server's answer: when it consumes the request that covers the screen, it
\* covers the screen, or first tells a new size.
LEMMA AsksAnswered ==
    ASSUME TypeInv, TypeInv', ScreenInv, ServerAnswers
    PROVE  (LoopAsks /\ BlackAhead)'
  <1> USE DEF innerVars, lifeVars, screenVars, countVars, clientVars, writerVars,
              readerVars, callerVars, externalVars, wireVars, serverVars
  <1>0. LoopAsks /\ BlackAhead /\ SizeTold /\ TasksRunning
    BY DEF ScreenInv
  <1>a. /\ s2c \in Seq(ServerMessage) /\ s2c' \in Seq(ServerMessage)
        /\ server \in Server /\ fb \in Framebuffer
    BY DEF TypeInv, TypeOK
  <1>b. server.pending \in Seq(Request) /\ server.size \in Nat
    BY <1>a DEF Server
  <1>1. PICK k \in 1 .. Len(server.pending) :
          LET full == {i \in 1 .. k : ~server.pending[i].incremental} IN
          /\ \E rs \in Composed(\E i \in full : server.pending[i].area >= server.size) :
               s2c' = Append(s2c, [kind |-> "update", rects |-> rs])
          /\ server' = [server EXCEPT !.pending = SubSeq(@, k + 1, Len(@)),
                                      !.told = server.size, !.dirty = FALSE,
                                      !.composed = @ + 1]
    BY DEF ServerAnswers
  <1> DEFINE covers == \E i \in 1 .. k : /\ ~server.pending[i].incremental
                                         /\ server.pending[i].area >= server.size
  <1>2. PICK rs \in Composed(covers) : s2c' = Append(s2c, [kind |-> "update", rects |-> rs])
    <2> DEFINE full == {i \in 1 .. k : ~server.pending[i].incremental}
               above == \E i \in full : server.pending[i].area >= server.size
    <2>1. above = covers
      OBVIOUS
    <2>2. \E rs \in Composed(above) : s2c' = Append(s2c, [kind |-> "update", rects |-> rs])
      BY <1>1
    <2> HIDE DEF covers, above
    <2> QED
      BY <2>1, <2>2
  <1>3. UNCHANGED <<fb, needsFull, rpc, update, commands, wpc, wcmd, c2s, connected, link>>
    BY DEF ServerAnswers
  <1>4. server'.pending = SubSeq(server.pending, k + 1, Len(server.pending))
    BY <1>a, <1>1 DEF Server
  <1>5. Range(server.pending) = {server.pending[i] : i \in 1 .. k} \cup Range(server'.pending)
    BY <1>b, <1>4, RangeDrop
  <1> HIDE DEF covers
  <1> DEFINE paint == [kind |-> "paint", whole |-> covers]
             resize == [kind |-> "resize", size |-> server.size]
             m == [kind |-> "update", rects |-> rs]
  <1>6. rs \in Seq(Rect) /\ m \in ServerMessage
    <2>1. paint \in Rect /\ resize \in Rect
      BY <1>a DEF Rect, Server, covers
    <2>2. rs \in {<<paint>>, <<resize>>, <<paint, resize>>, <<resize, paint>>}
      BY <1>2 DEF Composed
    <2>3. rs \in Seq(Rect)
      <3> DEFINE R == Rect
      <3>1. paint \in R /\ resize \in R
        BY <2>1
      <3> HIDE DEF R, paint, resize
      <3>2. <<paint>> \in Seq(R) /\ <<resize>> \in Seq(R)
        BY <3>1
      <3>3. <<paint, resize>> \in Seq(R) /\ <<resize, paint>> \in Seq(R)
        BY <3>1
      <3> QED
        BY <2>2, <3>2, <3>3 DEF R
    <2> QED
      BY <2>3 DEF ServerMessage
  <1>7. m.kind = "update" /\ m.rects = rs
    OBVIOUS
  <1>8. server.size # server.told => Clears(rs)
    <2>1. server.size # server.told => rs \in {<<resize>>, <<paint, resize>>, <<resize, paint>>}
      BY <1>2 DEF Composed
    <2>2. resize.kind = "resize"
      OBVIOUS
    <2> HIDE DEF paint, resize
    <2> QED
      BY <2>1, <2>2 DEF Clears, Range
  <1>9. server.size = server.told /\ covers => Clears(rs)
    <2>1. server.size = server.told => rs = <<paint>>
      BY <1>2 DEF Composed
    <2>2. covers => paint.whole
      OBVIOUS
    <2> HIDE DEF paint
    <2> QED
      BY <2>1, <2>2 DEF Clears, Range
  <1> HIDE DEF m
  <1>10. Range(s2c') = Range(s2c) \cup {m}
    BY <1>a, <1>2, <1>6, RangeAppend DEF m
  <1>11. LoopAsks'
    BY <1>a, <1>7, <1>10, UpdateInStream DEF LoopAsks, UpdateComing
  <1>12. ClearingComes \/ Clears(rs) => ClearingComes'
    BY <1>3, <1>7, <1>10 DEF ClearingComes, Clears, RectsLeft
  <1>13. \A r : AsksForAll(r)' <=> AsksForAll(r)
    BY <1>3 DEF AsksForAll
  <1>14. ASSUME NEW r \in UnderWay, AsksForAll(r), Live, ~ClearingComes, r \notin UnderWay'
         PROVE  Clears(rs)
    <2>1. r \in {server.pending[i] : i \in 1 .. k}
      BY <1>3, <1>5, <1>14 DEF UnderWay, InHand
    <2>2. PICK i \in 1 .. k : r = server.pending[i]
      BY <2>1
    <2>3. r \in Request
      BY <1>b, <2>2, ElementOfSeq
    <2>4. ~r.incremental /\ r.area >= fb.size
      BY <1>14, <2>3 DEF AsksForAll, Request
    <2>5. fb.size = server.told
      <3>1. ~ResizingAfter(0)
        <4>1. \A j \in 1 .. Len(s2c) : s2c[j] \in Range(s2c)
          BY <1>a, LenProperties DEF Range
        <4> QED
          BY <1>14, <4>1 DEF ResizingAfter, Resizes, ClearingComes, Clears
      <3>2. ~Resizes(RectsLeft)
        BY <1>14 DEF ClearingComes, Clears, Resizes
      <3> QED
        BY <1>0, <1>14, <3>1, <3>2 DEF SizeTold, TasksRunning, Live
    <2>6. server.size = server.told => covers
      BY <2>2, <2>4, <2>5 DEF covers
    <2> QED
      BY <1>8, <1>9, <2>6
  <1>15. Live' => Live
    BY <1>3 DEF Live
  <1> QED
    BY <1>0, <1>3, <1>11, <1>12, <1>13, <1>14, <1>15 DEF BlackAhead

LEMMA AsksNext ==
    TypeInv /\ TypeInv' /\ ScreenInv /\ TasksRunning' /\ [Next]_vars => (LoopAsks /\ BlackAhead)'
  <1> SUFFICES ASSUME TypeInv, TypeInv', ScreenInv, TasksRunning', [Next]_vars
               PROVE  (LoopAsks /\ BlackAhead)'
    OBVIOUS
  <1> USE DEF innerVars, lifeVars, screenVars, countVars, clientVars, writerVars,
              readerVars, callerVars, externalVars, wireVars, serverVars
  <1>0. LoopAsks /\ BlackAhead
    BY DEF ScreenInv
  <1>1. ASSUME UNCHANGED <<fb, needsFull, rpc, update, s2c, wpc, wcmd, c2s, server, link>>,
               connected' => connected, Live' => Range(commands) \subseteq Range(commands')
        PROVE  (LoopAsks /\ BlackAhead)'
    <2>1. Live' => UnderWay \subseteq UnderWay'
      BY <1>1 DEF UnderWay, InHand
    <2>2. Live' => Live
      BY <1>1 DEF Live
    <2> QED
      BY <1>0, <1>1, <2>1, <2>2, AsksKept
  <1>2. ASSUME NEW a \in Actors, MarkDead(a) PROVE (LoopAsks /\ BlackAhead)'
    BY <1>1, <1>2 DEF MarkDead, MarkDeadSwap, MarkDeadEmit, MarkDeadTell
  <1>3. CASE Close
    BY <1>1, <1>3 DEF Close
  <1>4. ASSUME NEW c \in Callers, Begin(c) \/ CallerStep(c) \/ RefreshTimesOut(c)
        PROVE  (LoopAsks /\ BlackAhead)'
    <2>1. CASE CallerPushes(c)
      <3>1. CommandOf(c) \in Command /\ commands \in Seq(Command)
        BY DEF CommandOf, Command, Origin, TypeInv, TypeOK
      <3>2. Range(commands) \subseteq Range(commands')
        BY <2>1, <3>1, RangeAppend DEF CallerPushes, Enqueue
      <3> QED
        BY <1>1, <2>1, <3>2 DEF CallerPushes
    <2>2. CASE Begin(c) \/ LoadFloor(c) \/ CallerAdmits(c) \/ RefreshReceives(c)
               \/ TakeFrame(c) \/ RefreshTimesOut(c)
      BY <1>1, <2>2 DEF Begin, LoadFloor, CallerAdmits, RefreshReceives, TakeFrame,
                  RefreshTimesOut
    <2> QED
      BY <1>4, <2>1, <2>2 DEF CallerStep
  <1>5. CASE DesktopChanges
    <2>1. /\ UNCHANGED <<fb, needsFull, rpc, update, s2c, wpc, wcmd, c2s, link, connected, commands>>
          /\ server'.pending = server.pending
      BY <1>5 DEF DesktopChanges, TypeInv, TypeOK, Server
    <2>2. UnderWay' = UnderWay /\ (Live' => Live)
      BY <2>1 DEF UnderWay, InHand, Live
    <2> QED
      BY <1>0, <2>1, <2>2, AsksKept
  <1>6. CASE ServerReads
    <2>1. /\ UNCHANGED <<fb, needsFull, rpc, update, s2c, wpc, wcmd, link, connected, commands>>
          /\ c2s # <<>> /\ c2s' = Tail(c2s) /\ c2s \in Seq(Message)
          /\ server.pending \in Seq(Request)
      BY <1>6 DEF ServerReads, TypeInv, TypeOK, Server
    <2>2. Range(c2s) = {Head(c2s)} \cup Range(c2s') /\ Head(c2s) \in Message
      BY <2>1, RangeTail, HeadTailProperties
    <2>3. /\ Range(server.pending) \subseteq Range(server'.pending)
          /\ Head(c2s).kind = "request" => Head(c2s) \in Range(server'.pending)
      <3>1. CASE Head(c2s).kind = "request"
        <4>1. server'.pending = Append(server.pending, Head(c2s))
          BY <1>6, <3>1 DEF ServerReads, TypeInv, TypeOK, Server
        <4>2. Head(c2s) \in Request
          BY <2>2, <3>1 DEF Message
        <4> QED
          BY <2>1, <4>1, <4>2, RangeAppend
      <3>2. CASE Head(c2s).kind # "request"
        BY <1>6, <3>2 DEF ServerReads
      <3> QED
        BY <3>1, <3>2
    <2>4. /\ \A m \in UnderWay : m.kind = "request" => m \in UnderWay'
          /\ Live' => Live
      BY <2>1, <2>2, <2>3 DEF UnderWay, InHand, Live
    <2> QED
      BY <1>0, <2>1, <2>4, AsksKept
  <1>7. CASE ServerNotices
    <2>1. /\ UNCHANGED <<fb, needsFull, rpc, update, wpc, wcmd, link, connected, commands, c2s, server>>
          /\ \E kind \in {"bell", "cutText", "malformed"} : s2c' = Append(s2c, [kind |-> kind])
      BY <1>7 DEF ServerNotices
    <2>2. PICK kind \in {"bell", "cutText", "malformed"} : s2c' = Append(s2c, [kind |-> kind])
      BY <2>1
    <2>3. [kind |-> kind] \in ServerMessage /\ s2c \in Seq(ServerMessage)
      BY DEF ServerMessage, TypeInv, TypeOK
    <2>4. Range(s2c) \subseteq Range(s2c')
      BY <2>2, <2>3, RangeAppend
    <2>5. UnderWay' = UnderWay /\ (Live' => Live)
      BY <2>1 DEF UnderWay, InHand, Live
    <2> QED
      BY <1>0, <2>1, <2>4, <2>5, AsksKept
  <1>8. CASE LinkBreaks
    BY <1>8 DEF LinkBreaks, LoopAsks, BlackAhead, Live
  <1>9. CASE UNCHANGED vars
    BY <1>1, <1>9 DEF vars
  <1> QED
    BY <1>2, <1>3, <1>4, <1>5, <1>6, <1>7, <1>8, <1>9, AsksWriter, AsksReader, AsksAnswered
    DEF Next

LEMMA ScreenHolds == Spec => [](TypeInv /\ ScreenInv)
  <1>1. TypeInv /\ ScreenInv /\ [Next]_vars => (TypeInv /\ ScreenInv)'
    BY TypeNext, TasksNext, SizeNext, AsksNext DEF ScreenInv
  <1> QED
    BY TypeInit, ScreenInit, <1>1, PTL DEF Spec

\* Continuous mode never stalls: while the session lives, a request is between
\* the queue and the desktop, or the update whose end sends the next one is in
\* the stream or in the read loop's hands, whatever else the callers ask for and
\* however many requests the desktop folds into one answer.
THEOREM ContinuousNeverStalls == Spec => []NeverStalls
  BY ScreenHolds, ScreenImplies, PTL

\* No pixel stays black unasked for: a live session with a part of its
\* framebuffer unpainted owes itself a whole request, has one of the present size
\* under way, or has an update still to read; a resize between any two of these
\* steps changes nothing of it.
THEOREM BlackPixelsAreAskedFor == Spec => []BlackIsAskedFor
  BY ScreenHolds, ScreenImplies, PTL

-----------------------------------------------------------------------------
(* Refinement.  RfbSession implements SessionPromise.                        *)


\* The names of the promise's variables, as the session maps them.
Over == AnnouncedBy(Len(events))
Asks == [c \in Callers |-> AskOf(c)]

\* A caller that calls nothing has the record of an input method.
IdleIsNoCall == \A c \in Callers : call[c].pc = "idle" => call[c].op = "input"

RefInv == TypeInv /\ DeathInv /\ FreshInv /\ IdleIsNoCall

LEMMA IdleInit == Init => IdleIsNoCall
  BY DEF Init, IdleIsNoCall, NoCall

\* Only a return makes a caller idle.
LEMMA IdleNext == TypeInv /\ IdleIsNoCall /\ [Next]_vars => IdleIsNoCall'
  <1> SUFFICES ASSUME TypeInv, IdleIsNoCall, [Next]_vars PROVE IdleIsNoCall'
    OBVIOUS
  <1> USE DEF innerVars, clientVars, externalVars, wireVars, serverVars, callerVars,
              writerVars, readerVars
  <1>1. call \in [Callers -> Call]
    BY DEF TypeInv, TypeOK
  <1>2. CASE UNCHANGED call
    BY <1>2 DEF IdleIsNoCall
  <1>3. ASSUME NEW c \in Callers, Begin(c) \/ CallerStep(c) \/ RefreshTimesOut(c)
        PROVE  IdleIsNoCall'
    <2>1. CASE Return(c)
      BY <1>1, <2>1 DEF Return, IdleIsNoCall, NoCall
    <2>2. CASE /\ call'[c].pc # "idle"
               /\ \A d \in Callers \ {c} : call'[d] = call[d]
      BY <2>2 DEF IdleIsNoCall
    <2>3. ASSUME NEW p \in {"push", "wait", "frame"}, Proceed(c, p) PROVE IdleIsNoCall'
      BY <1>1, <2>2, <2>3 DEF Proceed, Call
    <2>4. CASE Begin(c)
      <3>1. CASE call' = [call EXCEPT ![c].pc = "admit"]
        BY <1>1, <2>2, <3>1 DEF Call
      <3>2. ASSUME NEW o, call' = [call EXCEPT ![c] =
                     [NoCall EXCEPT !.pc = "floor", !.op = o, !.pos = Len(events),
                        !.begun = updatesBegun, !.composed = server.composed]]
            PROVE  IdleIsNoCall'
        BY <1>1, <2>2, <3>2 DEF NoCall
      <3> QED
        BY <2>4, <3>1, <3>2 DEF Begin
    <2>5. CASE LoadFloor(c)
      BY <1>1, <2>2, <2>5 DEF LoadFloor, Call
    <2>6. CASE CallerAdmits(c) \/ CallerPushes(c) \/ TakeFrame(c) \/ RefreshTimesOut(c)
      BY <2>1, <2>3, <2>6 DEF CallerAdmits, CallerPushes, TakeFrame, RefreshTimesOut
    <2>7. CASE RefreshReceives(c)
      <3>1. ASSUME NEW n, call' = [call EXCEPT ![c].pos = n] PROVE IdleIsNoCall'
        BY <1>1, <2>2, <2>7, <3>1 DEF RefreshReceives, Call
      <3> QED
        BY <2>1, <2>3, <2>7, <3>1 DEF RefreshReceives
    <2> QED
      BY <1>3, <2>4, <2>5, <2>6, <2>7 DEF CallerStep
  <1>4. CASE Close \/ WriterStep \/ \E a \in Actors : MarkDead(a)
    BY <1>2, <1>4 DEF Close, WriterStep, WriterTakes, WriterReadsSize, WriterWrites,
       WriterFails, WriterStops, WriterHalfCloses, MarkDead, MarkDeadSwap, MarkDeadEmit,
       MarkDeadTell
  <1>5. CASE ReaderStep
    BY <1>2, <1>5 DEF ReaderStep, BeginUpdate, PaintRect, ResizeRect, ResizeInvalidates,
       ResizeAnnounces, AnswerAll, ReaderAdmits, ReaderPushes, NumberPaint, MarkPainted,
       PublishPainted, ReadNotice, ReaderFails, ReaderStops
  <1>6. CASE DesktopChanges \/ ServerReads \/ ServerAnswers \/ ServerNotices \/ LinkBreaks
    BY <1>2, <1>6 DEF DesktopChanges, ServerReads, ServerAnswers, ServerNotices, LinkBreaks
  <1>7. CASE UNCHANGED vars
    BY <1>2, <1>7 DEF vars
  <1> QED
    BY <1>3, <1>4, <1>5, <1>6, <1>7 DEF Next

LEMMA RefHolds == Spec => []RefInv
  BY TypeInit, TypeNext, DeathInit, DeathNext, FreshInit, FreshNext, IdleInit, IdleNext, PTL
  DEF Spec, RefInv

-----------------------------------------------------------------------------
(* Steps of the session that the promise sees in part, or not at all.        *)

LEMMA OverIsAnnounced == Over <=> Announced
  BY DEF Over, AnnouncedBy, Announced

\* The log grows: what it said up to a place it goes on saying.
LEMMA LogGrows ==
    ASSUME RefInv, NEW e \in Event, Emit(e), UNCHANGED call
    PROVE  /\ Asks' = Asks
           /\ Over' <=> Over \/ e = "disconnected"
  <1>1. events \in Seq(Event) /\ Len(events) \in Nat
    BY LenType DEF RefInv, TypeInv, TypeOK
  <1>2. /\ Len(events') = Len(events) + 1
        /\ \A i \in 1 .. Len(events) : events'[i] = events[i]
        /\ events'[Len(events) + 1] = e
    BY <1>1, AppendProperties DEF Emit
  <1>3. ASSUME NEW n \in Nat, n <= Len(events) PROVE AnnouncedBy(n)' <=> AnnouncedBy(n)
    BY <1>1, <1>2, <1>3 DEF AnnouncedBy
  <1>4. ASSUME NEW c \in Callers PROVE AskOf(c)' = AskOf(c)
    <2>1. call[c].pos \in Nat /\ call[c].pos <= Len(events)
      BY DEF RefInv, TypeInv, TypeOK, Call, DeathInv, ReceiversBehind
    <2>2. MadeLate(c)' <=> MadeLate(c)
      BY <1>2, <2>1 DEF MadeLate, AnnouncedBy
    <2>3. MadeLate(c)' = MadeLate(c)
      BY <2>2 DEF MadeLate
    <2> QED
      BY <2>3 DEF AskOf
  <1>5. Over' <=> Over \/ e = "disconnected"
    <2>1. Over' <=> \E i \in 1 .. Len(events) + 1 : events'[i] = "disconnected"
      BY <1>2 DEF Over, AnnouncedBy
    <2> QED
      BY <1>1, <1>2, <2>1 DEF Over, AnnouncedBy
  <1> QED
    BY <1>4, <1>5 DEF Asks

\* With the log and the calls as they were, the promise sees the same calls.
LEMMA SameAsks == UNCHANGED <<events, call>> => Asks' = Asks /\ Over' = Over
  BY DEF Asks, AskOf, MadeLate, AnnouncedBy, Over

\* A step of one caller changes its own record alone.
LEMMA OneAsks ==
    ASSUME NEW c \in Callers, UNCHANGED events,
           \A d \in Callers \ {c} : call'[d] = call[d]
    PROVE  Asks' = [Asks EXCEPT ![c] = AskOf(c)']
  <1>1. \A d \in Callers \ {c} : AskOf(d)' = AskOf(d)
    BY DEF AskOf, MadeLate, AnnouncedBy
  <1> QED
    BY <1>1 DEF Asks

PromiseStep == [Promise!Next]_(Promise!promiseVars)

\* What the promise allows, said of the session's variables.
LEMMA PromiseAllows ==
    /\ UNCHANGED <<Over, updatesBegun, fb.by, Asks>> => PromiseStep
    /\ updatesBegun' = updatesBegun + 1 /\ UNCHANGED <<Over, fb.by, Asks>> => PromiseStep
    /\ fb'.by \in {0, updatesBegun} /\ UNCHANGED <<Over, updatesBegun, Asks>> => PromiseStep
    /\ ~Over /\ Over' = TRUE /\ UNCHANGED <<updatesBegun, fb.by, Asks>> => PromiseStep
  BY DEF PromiseStep, Promise!Next, Promise!promiseVars, Promise!Receive, Promise!Paint,
         Promise!Empty, Promise!Announce, Over, Asks

NoAsk == [state |-> "idle", since |-> 0, late |-> FALSE]

\* The same for a step of one caller, by what becomes of its call.
LEMMA PromiseAllowsCaller ==
    ASSUME NEW c \in Callers, UNCHANGED <<events, updatesBegun, fb>>,
           \A d \in Callers \ {c} : call'[d] = call[d],
           \/ AskOf(c)' = AskOf(c)
           \/ AskOf(c)' = NoAsk
           \/ /\ AskOf(c) = NoAsk
              /\ AskOf(c)' = [state |-> "waiting", since |-> updatesBegun, late |-> Over]
           \/ /\ AskOf(c).state = "waiting" /\ ~AskOf(c).late
              /\ fb.by = 0 \/ fb.by > AskOf(c).since
              /\ AskOf(c)' = [state |-> "answered", since |-> AskOf(c).since, late |-> FALSE]
    PROVE  PromiseStep
  <1>1. Asks' = [Asks EXCEPT ![c] = AskOf(c)'] /\ Asks[c] = AskOf(c)
    BY OneAsks DEF Asks
  <1>2. Over' = Over /\ fb'.by = fb.by /\ updatesBegun' = updatesBegun
    BY DEF Over, AnnouncedBy
  <1>3. CASE AskOf(c)' = AskOf(c)
    <2>1. Asks' = Asks
      BY <1>1, <1>3 DEF Asks
    <2> QED
      BY <1>2, <2>1, PromiseAllows
  <1>4. CASE AskOf(c)' = NoAsk
    BY <1>1, <1>2, <1>4 DEF PromiseStep, Promise!Next, Promise!Return, Promise!NoAsk, NoAsk,
       Over, Asks
  <1>5. CASE /\ AskOf(c) = NoAsk
             /\ AskOf(c)' = [state |-> "waiting", since |-> updatesBegun, late |-> Over]
    BY <1>1, <1>2, <1>5 DEF PromiseStep, Promise!Next, Promise!Ask, Promise!NoAsk, NoAsk,
       Over, Asks
  <1>6. CASE /\ AskOf(c).state = "waiting" /\ ~AskOf(c).late
             /\ fb.by = 0 \/ fb.by > AskOf(c).since
             /\ AskOf(c)' = [state |-> "answered", since |-> AskOf(c).since, late |-> FALSE]
    BY <1>1, <1>2, <1>6 DEF PromiseStep, Promise!Next, Promise!Answer, Over, Asks
  <1> QED
    BY <1>3, <1>4, <1>5, <1>6

-----------------------------------------------------------------------------
(* The implementation                                                        *)

LEMMA PromiseInit == Init => Promise!Init
  <1> SUFFICES ASSUME Init PROVE Promise!Init
    OBVIOUS
  <1>1. Len(events) = 0 /\ fb.by = 0 /\ updatesBegun = 0
    BY EmptySeq DEF Init, Black
  <1>2. \A c \in Callers : AskOf(c) = NoAsk
    BY DEF Init, NoCall, AskOf, NoAsk
  <1>3. AnnouncedBy(Len(events)) = FALSE
    BY <1>1 DEF AnnouncedBy
  <1> QED
    BY <1>1, <1>2, <1>3 DEF Promise!Init, Promise!NoAsk, NoAsk

LEMMA PromiseNext == RefInv /\ [Next]_vars => PromiseStep
  <1> SUFFICES ASSUME RefInv, [Next]_vars PROVE PromiseStep
    OBVIOUS
  <1> USE DEF innerVars, lifeVars, screenVars, countVars, clientVars, writerVars,
              readerVars, callerVars, externalVars, wireVars, serverVars
  <1>a. /\ call \in [Callers -> Call] /\ update \in Update /\ fb \in Framebuffer
        /\ events \in Seq(Event)
    BY DEF RefInv, TypeInv, TypeOK
  <1>b. UNCHANGED <<events, call, updatesBegun, fb>> => PromiseStep
    BY SameAsks, PromiseAllows
  <1>c. ASSUME NEW e \in Event \ {"disconnected"}, Emit(e), UNCHANGED <<call, updatesBegun, fb>>
        PROVE  PromiseStep
    <2>1. Asks' = Asks /\ (Over' <=> Over)
      BY <1>c, LogGrows
    <2>2. Over' = Over
      BY <2>1 DEF Over, AnnouncedBy
    <2> QED
      BY <1>c, <2>1, <2>2, PromiseAllows
  <1>1. CASE BeginUpdate
    <2>1. updatesBegun' = updatesBegun + 1 /\ UNCHANGED <<events, call, fb>>
      BY <1>1 DEF BeginUpdate
    <2> QED
      BY <2>1, SameAsks, PromiseAllows
  <1>2. CASE PaintRect
    <2>1. fb'.by = updatesBegun /\ UNCHANGED <<events, call, updatesBegun>>
      BY <1>2, <1>a DEF PaintRect, NextRectIs, Framebuffer
    <2> QED
      BY <2>1, SameAsks, PromiseAllows
  <1>3. CASE ResizeRect
    <2>1. fb'.by = 0 /\ UNCHANGED <<events, call, updatesBegun>>
      BY <1>3 DEF ResizeRect, Black
    <2> QED
      BY <2>1, SameAsks, PromiseAllows
  <1>4. CASE ResizeAnnounces \/ PublishPainted \/ ReadNotice
    <2>1. UNCHANGED <<call, updatesBegun, fb>>
      BY <1>4 DEF ResizeAnnounces, PublishPainted, ReadNotice
    <2>2. Emit("resized") \/ Emit("painted") \/ Emit("bell") \/ Emit("cutText")
      BY <1>4 DEF ResizeAnnounces, PublishPainted, ReadNotice
    <2> QED
      BY <1>c, <2>1, <2>2 DEF Event
  <1>5. CASE \/ ResizeInvalidates \/ AnswerAll \/ ReaderAdmits \/ ReaderPushes \/ NumberPaint
             \/ MarkPainted \/ ReaderFails \/ ReaderStops
    BY <1>5, <1>b DEF ResizeInvalidates, AnswerAll, ReaderAdmits, ReaderPushes, NumberPaint,
       MarkPainted, ReaderFails, ReaderStops
  <1>6. ASSUME NEW a \in Actors, MarkDeadEmit(a) PROVE PromiseStep
    <2>1. Emit("disconnected") /\ UNCHANGED <<call, updatesBegun, fb>>
      BY <1>6 DEF MarkDeadEmit
    <2>2. ~Over
      BY <1>6, OverIsAnnounced DEF MarkDeadEmit, RefInv, DeathInv, OneAnnouncer, Announcing
    <2>3. Asks' = Asks /\ Over'
      BY <2>1, LogGrows DEF Event
    <2>4. Over' = TRUE
      BY <2>3 DEF Over, AnnouncedBy
    <2> QED
      BY <2>1, <2>2, <2>3, <2>4, PromiseAllows
  <1>7. ASSUME NEW a \in Actors, MarkDeadSwap(a) \/ MarkDeadTell(a) PROVE PromiseStep
    BY <1>7, <1>b DEF MarkDeadSwap, MarkDeadTell
  <1>8. ASSUME NEW c \in Callers, Begin(c) \/ CallerStep(c) \/ RefreshTimesOut(c)
        PROVE  PromiseStep
    <2> DEFINE Alone == \A d \in Callers \ {c} : call'[d] = call[d]
    <2>1. UNCHANGED <<events, updatesBegun, fb>>
      BY <1>8 DEF Begin, CallerStep, LoadFloor, CallerAdmits, CallerPushes,
                  RefreshReceives, TakeFrame, RefreshTimesOut
    <2>2. ASSUME Return(c) PROVE PromiseStep
      <3>1. call'[c] = NoCall /\ Alone
        BY <2>2, <1>a DEF Return
      <3>2. AskOf(c)' = NoAsk
        BY <3>1 DEF AskOf, NoAsk, NoCall
      <3> QED
        BY <2>1, <3>1, <3>2, PromiseAllowsCaller
    <2>3. ASSUME Alone, call'[c].op = call[c].op, call'[c].begun = call[c].begun,
                 MadeLate(c)' = MadeLate(c), call'[c].pc # "frame", call[c].pc # "frame"
          PROVE  PromiseStep
      <3>1. AskOf(c)' = AskOf(c)
        BY <2>3 DEF AskOf
      <3> QED
        BY <2>1, <2>3, <3>1, PromiseAllowsCaller
    <2>4. CASE Begin(c)
      <3>1. call[c].pc = "idle" /\ call[c].op = "input"
        BY <2>4 DEF Begin, RefInv, IdleIsNoCall
      <3>2. AskOf(c) = NoAsk
        BY <3>1 DEF AskOf, NoAsk
      <3>3. CASE call' = [call EXCEPT ![c].pc = "admit"]
        <4>1. call'[c].op = "input" /\ Alone
          BY <3>1, <3>3, <1>a DEF Call
        <4>2. AskOf(c)' = NoAsk
          BY <4>1 DEF AskOf, NoAsk
        <4> QED
          BY <2>1, <4>1, <4>2, PromiseAllowsCaller
      <3>4. ASSUME NEW o \in Ops \ {"input"},
                   call' = [call EXCEPT ![c] =
                       [NoCall EXCEPT !.pc = "floor", !.op = o, !.pos = Len(events),
                          !.begun = updatesBegun, !.composed = server.composed]]
            PROVE  PromiseStep
        <4>1. /\ call'[c].pc = "floor" /\ call'[c].op = o /\ call'[c].pos = Len(events)
              /\ call'[c].begun = updatesBegun /\ Alone
          BY <3>4, <1>a DEF NoCall
        <4>2. MadeLate(c)' = Over
          BY <2>1, <4>1 DEF MadeLate, AnnouncedBy, Over
        <4>3. AskOf(c)' = [state |-> "waiting", since |-> updatesBegun, late |-> Over]
          BY <4>1, <4>2 DEF AskOf
        <4> QED
          BY <2>1, <3>2, <4>1, <4>3, PromiseAllowsCaller
      <3> QED
        BY <2>4, <3>3, <3>4 DEF Begin
    <2>5. CASE LoadFloor(c)
      <3>1. /\ call[c].pc = "floor" /\ call'[c].pc = "admit" /\ call'[c].op = call[c].op
            /\ call'[c].begun = call[c].begun /\ call'[c].pos = call[c].pos /\ Alone
        BY <2>5, <1>a DEF LoadFloor, Call
      <3>2. MadeLate(c)' = MadeLate(c)
        BY <2>1, <3>1 DEF MadeLate, AnnouncedBy
      <3> QED
        BY <2>3, <3>1, <3>2
    <2>6. ASSUME NEW p \in {"push", "wait"}, Proceed(c, p), call[c].pc \in {"admit", "push"},
                 call[c].pc = "admit" => connected
          PROVE  PromiseStep
      <3>1. /\ call'[c].pc = p /\ call'[c].op = call[c].op
            /\ call'[c].begun = call[c].begun /\ Alone
        BY <2>6, <1>a DEF Proceed, Call
      <3>2. MadeLate(c)' = FALSE
        BY <3>1 DEF MadeLate
      <3>3. MadeLate(c) = FALSE
        <4>1. CASE call[c].pc = "push"
          BY <4>1 DEF MadeLate
        <4>2. CASE connected
          <5>1. ~AnnouncedBy(Len(events))
            BY <4>2, OverIsAnnounced DEF RefInv, DeathInv, OneAnnouncer, Over
          <5>2. call[c].pos \in Nat /\ call[c].pos <= Len(events) /\ Len(events) \in Nat
            BY <1>a, LenType DEF RefInv, DeathInv, ReceiversBehind, Call
          <5> QED
            BY <5>1, <5>2 DEF MadeLate, AnnouncedBy
        <4> QED
          BY <2>6, <4>1, <4>2
      <3> QED
        BY <2>3, <2>6, <3>1, <3>2, <3>3
    <2>7. CASE CallerAdmits(c) \/ CallerPushes(c)
      BY <2>2, <2>6, <2>7 DEF CallerAdmits, CallerPushes
    <2>8. CASE RefreshReceives(c)
      <3>1. call[c].pc = "wait"
        BY <2>8 DEF RefreshReceives
      <3>2. ASSUME Answered(c), Proceed(c, "frame") PROVE PromiseStep
        <4>1. /\ call'[c].pc = "frame" /\ call'[c].op = call[c].op
              /\ call'[c].begun = call[c].begun /\ Alone
          BY <3>2, <1>a DEF Proceed, Call
        <4>2. MadeLate(c) = FALSE /\ MadeLate(c)' = FALSE
          BY <3>1, <4>1 DEF MadeLate
        <4>3. CASE call[c].op = "input"
          <5>1. AskOf(c)' = AskOf(c)
            BY <4>1, <4>3 DEF AskOf
          <5> QED
            BY <2>1, <4>1, <5>1, PromiseAllowsCaller
        <4>4. CASE call[c].op # "input"
          <5>1. AskOf(c) = [state |-> "waiting", since |-> call[c].begun, late |-> FALSE]
            BY <3>1, <4>2, <4>4 DEF AskOf
          <5>2. AskOf(c)' = [state |-> "answered", since |-> call[c].begun, late |-> FALSE]
            BY <4>1, <4>2, <4>4 DEF AskOf
          <5>3. AskOf(c)' = [state |-> "answered", since |-> AskOf(c).since, late |-> FALSE]
            BY <5>1, <5>2
          <5>4. fb.by = 0 \/ fb.by > call[c].begun
            <6>1. /\ call[c].begun \in Nat /\ call[c].floor \in Nat /\ fb.by \in Nat
                  /\ lastPaintedUpdate \in Nat
              BY DEF RefInv, TypeInv, TypeOK, Call, Framebuffer
            <6>2. call[c].begun <= call[c].floor /\ lastPaintedUpdate > call[c].floor
                  /\ (fb.by = 0 \/ fb.by >= lastPaintedUpdate)
              BY <3>1, <3>2 DEF RefInv, FreshInv, ScreenCurrent, FloorsHold, Answered
            <6> QED
              BY <6>1, <6>2
          <5>5. AskOf(c).state = "waiting" /\ ~AskOf(c).late /\ AskOf(c).since = call[c].begun
            BY <5>1
          <5> QED
            BY <2>1, <4>1, <5>3, <5>4, <5>5, PromiseAllowsCaller
        <4> QED
          BY <4>3, <4>4
      <3>3. ASSUME NEW n, call' = [call EXCEPT ![c].pos = n] PROVE PromiseStep
        <4>1. /\ call'[c].pc = "wait" /\ call'[c].op = call[c].op
              /\ call'[c].begun = call[c].begun /\ Alone
          BY <3>1, <3>3, <1>a DEF Call
        <4>2. MadeLate(c)' = MadeLate(c)
          BY <3>1, <4>1 DEF MadeLate
        <4> QED
          BY <2>3, <3>1, <4>1, <4>2
      <3> QED
        BY <2>2, <2>8, <3>2, <3>3 DEF RefreshReceives
    <2>9. CASE TakeFrame(c) \/ RefreshTimesOut(c)
      BY <2>2, <2>9 DEF TakeFrame, RefreshTimesOut
    <2> QED
      BY <1>8, <2>4, <2>5, <2>7, <2>8, <2>9 DEF CallerStep
  <1>9. CASE Close \/ WriterStep
    BY <1>9, <1>b DEF Close, WriterStep, WriterTakes, WriterReadsSize, WriterWrites,
       WriterFails, WriterStops, WriterHalfCloses
  <1>10. CASE DesktopChanges \/ ServerReads \/ ServerAnswers \/ ServerNotices \/ LinkBreaks
    BY <1>10, <1>b DEF DesktopChanges, ServerReads, ServerAnswers, ServerNotices, LinkBreaks
  <1>11. CASE UNCHANGED vars
    BY <1>11, <1>b DEF vars
  <1> QED
    BY <1>1, <1>2, <1>3, <1>4, <1>5, <1>6, <1>7, <1>8, <1>9, <1>10, <1>11
    DEF Next, ReaderStep, MarkDead

\* The session keeps its promise, whatever the number of its callers, the depth of
\* its event channel, the extents of the desktop and the order of its tasks: every
\* step is one SessionPromise allows, or none it sees.
THEOREM SessionKeepsPromise == Spec => KeepsPromise
  <1>1. Init => Promise!Init
    BY PromiseInit
  <1>2. RefInv /\ [Next]_vars => [Promise!Next]_(Promise!promiseVars)
    BY PromiseNext DEF PromiseStep
  <1> QED
    BY <1>1, <1>2, RefHolds, PTL DEF Spec, KeepsPromise, Promise!Spec
=============================================================================
