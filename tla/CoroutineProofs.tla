-------------------------- MODULE CoroutineProofs --------------------------
(***************************************************************************)
(* Proofs about Coroutine, for every set of coroutines, every limit, with  *)
(* and without protected mode and for every behaviour of the Lua program,  *)
(* but for those that the hypotheses of a theorem exclude: the code does   *)
(* break these properties under them.                                      *)
(***************************************************************************)
EXTENDS Coroutine, SequenceTheorems, FiniteSetTheorems, TLAPS

-----------------------------------------------------------------------------
(* Cutting a stack back: frames and pending variables (ldo.go:373, lauxlib.go:289). *)

\* A prefix of a sequence is a sequence, with the same elements.
LEMMA PrefixType ==
    ASSUME NEW S, NEW s \in Seq(S), NEW n \in Int, n <= Len(s)
    PROVE  /\ SubSeq(s, 1, n) \in Seq(S)
           /\ n >= 0 => Len(SubSeq(s, 1, n)) = n
           /\ n <= 0 => SubSeq(s, 1, n) = <<>>
           /\ \A i \in 1 .. n : SubSeq(s, 1, n)[i] = s[i]
<1>1. Len(s) \in Nat
    BY LenProperties
<1>2. CASE n >= 0
    <2>1. \A i \in 1 .. n : i \in 1 .. Len(s)
        BY <1>1, <1>2
    <2>2. SubSeq(s, 1, n) \in Seq(S) /\ Len(SubSeq(s, 1, n)) = n
        BY <1>1, <1>2, SubSeqProperties
    <2>3. \A i \in 1 .. n : SubSeq(s, 1, n)[i] = s[i]
        BY <1>1, <1>2, SubSeqProperties
    <2>4. n <= 0 => SubSeq(s, 1, n) = <<>>
        BY <1>2, <2>2, EmptySeq
    <2> QED
        BY <1>2, <2>2, <2>3, <2>4
<1>3. CASE n < 0
    <2>1. SubSeq(s, 1, n) = <<>>
        BY <1>3, SubSeqEmpty
    <2> QED
        BY <1>3, <2>1
<1> QED
    BY <1>2, <1>3

\* Front drops the last element.
LEMMA FrontType ==
    ASSUME NEW S, NEW s \in Seq(S)
    PROVE  /\ Front(s) \in Seq(S)
           /\ s # <<>> => Len(Front(s)) = Len(s) - 1
           /\ \A i \in 1 .. Len(s) - 1 : Front(s)[i] = s[i]
<1>1. Len(s) \in Nat /\ (s # <<>> => Len(s) > 0)
    BY LenProperties, EmptySeq
<1> DEFINE n == Len(s) - 1
<1>2. n \in Int /\ n <= Len(s) /\ (s # <<>> => n >= 0)
    BY <1>1
<1> HIDE DEF n
<1>3. /\ SubSeq(s, 1, n) \in Seq(S)
      /\ n >= 0 => Len(SubSeq(s, 1, n)) = n
      /\ \A i \in 1 .. n : SubSeq(s, 1, n)[i] = s[i]
    BY <1>2, PrefixType
<1> QED
    BY <1>2, <1>3 DEF Front, n

-----------------------------------------------------------------------------
(* What the frame helpers return. *)

\* CallsAbove counts the frames whose deferred nCcalls-- runs: it is a number.
LEMMA CallsAboveType ==
    ASSUME NEW fs \in Seq(Frame), NEW i \in Int
    PROVE  CallsAbove(fs, i) \in Int
<1> DEFINE S == {j \in DOMAIN fs : j > i /\ fs[j] \in CallFrames}
<1>1. Len(fs) \in Nat /\ DOMAIN fs = 1 .. Len(fs)
    BY LenProperties
<1>2. IsFiniteSet(1 .. Len(fs))
    BY <1>1, FS_Interval
<1>3. S \in SUBSET (1 .. Len(fs))
    BY <1>1
<1>4. IsFiniteSet(S)
    BY <1>2, <1>3, FS_Subset
<1>5. Cardinality(S) \in Nat
    BY <1>4, FS_CardinalityType
<1> QED
    BY <1>5 DEF CallsAbove

\* A close frame is replaced by a close frame.
LEMMA AfterHandlerErrorType ==
    ASSUME NEW fs \in Seq(Frame)
    PROVE  AfterHandlerError(fs) \in Seq(Frame)
<1>1. "rethrow" \in Frame
    BY DEF Frame, CloseFrames
<1>2. Append(Front(fs), "rethrow") \in Seq(Frame)
    BY <1>1, FrontType, AppendProperties
<1> QED
    BY <1>2 DEF AfterHandlerError

-----------------------------------------------------------------------------
(* Type correctness. *)

\* Places, statuses and threads the actions assign are of their types.
LEMMA ConstantsType ==
    /\ Main \in Threads /\ Coroutines \subseteq Threads
    /\ "scope" \in Frame /\ "handler" \in Frame /\ "unwind" \in Frame
    /\ "death" \in Frame /\ "coclose" \in Frame
    /\ CallFrames \subseteq Frame
    /\ Executing \subseteq Place /\ Sending \subseteq Place
    /\ Resting \subseteq Place /\ Driving \subseteq Place
    /\ "sendResume" \in Place /\ "crash" \in Place
BY DEF Threads, Frame, CallFrames, CloseFrames, Place, Executing, Sending,
       Resting, Driving, Holding

\* Cutting the frames of t back to a sequence of frames keeps the types.
LEMMA UnwindType ==
    ASSUME TypeOK, NEW t \in Threads, NEW i \in Int, NEW g \in Seq(Frame),
           Unwind(t, i, g)
    PROVE  frames' \in [Threads -> Seq(Frame)] /\ nCcalls' \in [Threads -> Int]
<1>1. frames[t] \in Seq(Frame)
    BY DEF TypeOK
<1>2. CallsAbove(frames[t], i - 1) \in Int
    BY <1>1, CallsAboveType
<1> QED
    BY <1>2 DEF TypeOK, Unwind

\* The three parts of the type invariant: the hand-off, the flags, the stack.
HandType ==
    /\ status \in [Threads -> {"none", "suspended", "running", "normal", "dead"}]
    /\ at \in [Threads -> Place]
    /\ callee \in [Threads -> Threads \cup {NoThread}]

FlagType ==
    /\ coSyncActive \in [Threads -> BOOLEAN]
    /\ promoted \in [Threads -> BOOLEAN]
    /\ deathErr \in [Threads -> BOOLEAN]
    /\ misreported \subseteq Threads

StackType ==
    /\ nCcalls \in [Threads -> Int]
    /\ frames \in [Threads -> Seq(Frame)]
    /\ tbc \in [Threads -> Seq(Nat)]

\* One turn of the closing loop keeps the types.
LEMMA CallCloseType ==
    ASSUME TypeOK, NEW t \in Threads, NEW fs \in Seq(Frame), CallClose(t, fs)
    PROVE  TypeOK'
<1>1. Front(tbc[t]) \in Seq(Nat)
    BY FrontType DEF TypeOK
<1>2. AfterHandlerError(fs) \in Seq(Frame)
    BY AfterHandlerErrorType
<1>3. Append(fs, "handler") \in Seq(Frame)
    BY ConstantsType, AppendProperties
<1>4. tbc' \in [Threads -> Seq(Nat)]
    BY <1>1 DEF TypeOK, CallClose
<1>5. frames' \in [Threads -> Seq(Frame)]
    BY <1>2, <1>3, ZenonT(60) DEF TypeOK, CallClose
<1>6. nCcalls' \in [Threads -> Int]
    BY DEF TypeOK, CallClose
<1>7. HandType'
    <2>1. \E p \in {"lua", "closing"} : at' = [at EXCEPT ![t] = p]
        BY DEF CallClose
    <2>2. {"lua", "closing"} \subseteq Place
        BY ConstantsType DEF Executing
    <2>3. at' \in [Threads -> Place]
        BY <2>1, <2>2 DEF TypeOK
    <2>4. UNCHANGED <<status, callee>>
        BY DEF CallClose
    <2> QED
        BY <2>3, <2>4 DEF TypeOK, HandType
<1>8. FlagType'
    BY DEF TypeOK, FlagType, CallClose, mode, record
<1> QED
    BY <1>4, <1>5, <1>6, <1>7, <1>8 DEF TypeOK, HandType, FlagType

\* Every step keeps the types of LState's fields (lstate.go:15-113).
LEMMA TypeStep ==
    ASSUME TypeOK, [Next]_vars
    PROVE  TypeOK'
<1> USE ConstantsType
<1>1. ASSUME NEW t \in Threads, NEW co \in Coroutines, Create(t, co)
      PROVE  TypeOK'
    <2>1. HandType'
        BY <1>1 DEF TypeOK, HandType, Create, Executing, Sending,
            Resting, Driving
    <2>2. FlagType'
        BY <1>1 DEF TypeOK, FlagType, Create, mode, record
    <2>3. StackType'
        BY <1>1 DEF TypeOK, StackType, Create, goStack
    <2> QED
        BY <2>1, <2>2, <2>3 DEF TypeOK, HandType, FlagType, StackType
<1>2. ASSUME NEW t \in Threads, NEW co \in Coroutines, ResumeSync(t, co)
      PROVE  TypeOK'
    <2>1. HandType'
        BY <1>2 DEF TypeOK, HandType, ResumeSync, StartResume, Handover, Executing, Sending,
            Resting, Driving
    <2>2. FlagType'
        BY <1>2 DEF TypeOK, FlagType, ResumeSync, StartResume, Handover, mode, record
    <2>3. StackType'
        BY <1>2 DEF TypeOK, StackType, ResumeSync, StartResume, Handover, goStack
    <2> QED
        BY <2>1, <2>2, <2>3 DEF TypeOK, HandType, FlagType, StackType
<1>3. ASSUME NEW t \in Threads, NEW co \in Coroutines, ResumePromoted(t, co)
      PROVE  TypeOK'
    <2>1. HandType'
        BY <1>3 DEF TypeOK, HandType, ResumePromoted, StartResume, Handover, Executing, Sending,
            Resting, Driving
    <2>2. FlagType'
        BY <1>3 DEF TypeOK, FlagType, ResumePromoted, StartResume, Handover, mode, record
    <2>3. StackType'
        BY <1>3 DEF TypeOK, StackType, ResumePromoted, StartResume, Handover, goStack
    <2> QED
        BY <2>1, <2>2, <2>3 DEF TypeOK, HandType, FlagType, StackType
<1>4. ASSUME NEW t \in Threads, NEW co \in Coroutines, Handoff(t, co)
      PROVE  TypeOK'
    <2>1. HandType'
        BY <1>4 DEF TypeOK, HandType, Handoff, Executing, Sending,
            Resting, Driving
    <2>2. FlagType'
        BY <1>4 DEF TypeOK, FlagType, Handoff, mode, record
    <2>3. StackType'
        BY <1>4 DEF TypeOK, StackType, Handoff, goStack
    <2> QED
        BY <2>1, <2>2, <2>3 DEF TypeOK, HandType, FlagType, StackType
<1>5. ASSUME NEW t \in Threads, NEW co \in Coroutines, RecvCoMsg(t, co)
      PROVE  TypeOK'
    <2>1. HandType'
        BY <1>5 DEF TypeOK, HandType, RecvCoMsg, MessageStatus, AfterMessage, Executing, Sending,
            Resting, Driving
    <2>2. FlagType'
        BY <1>5 DEF TypeOK, FlagType, RecvCoMsg, MessageStatus, AfterMessage, mode, record
    <2>3. StackType'
        BY <1>5 DEF TypeOK, StackType, RecvCoMsg, MessageStatus, AfterMessage, goStack
    <2> QED
        BY <2>1, <2>2, <2>3 DEF TypeOK, HandType, FlagType, StackType
<1>6. ASSUME NEW t \in Threads, NEW co \in Coroutines, Close(t, co)
      PROVE  TypeOK'
    <2>1. <<"coclose">> \in Seq(Frame) /\ <<>> \in Seq(Frame)
        OBVIOUS
    <2>2. CASE tbc[co] # <<>>
        <3>1. HandType'
            <4>1. at' \in [Threads -> Place]
                BY <1>6, <2>2, ZenonT(60) DEF TypeOK, Close, Executing, Driving
            <4>4. status' = [status EXCEPT ![co] = "running"]
                BY <1>6, <2>2 DEF Close
            <4>2. status' \in [Threads ->
                        {"none", "suspended", "running", "normal", "dead"}]
                BY <4>4 DEF TypeOK
            <4>3. callee' \in [Threads -> Threads \cup {NoThread}]
                BY <1>6, <2>2, ZenonT(60) DEF TypeOK, Close
            <4> QED
                BY <4>1, <4>2, <4>3 DEF HandType
        <3>2. FlagType'
            BY <1>6, <2>2 DEF TypeOK, FlagType, Close, mode, record
        <3>3. nCcalls' \in [Threads -> Int]
            BY <1>6, <2>2 DEF TypeOK, Close
        <3>4. frames' \in [Threads -> Seq(Frame)]
            BY <1>6, <2>2, <2>1, ZenonT(60) DEF TypeOK, Close
        <3>5. tbc' \in [Threads -> Seq(Nat)]
            BY <1>6 DEF TypeOK, Close
        <3> QED
            BY <3>1, <3>2, <3>3, <3>4, <3>5 DEF TypeOK, HandType, FlagType
    <2>3. CASE tbc[co] = <<>>
        <3>1. HandType'
            BY <1>6, <2>3 DEF TypeOK, HandType, Close, Executing, Driving
        <3>2. FlagType'
            BY <1>6, <2>3 DEF TypeOK, FlagType, Close, mode, record
        <3>3. nCcalls' \in [Threads -> Int]
            BY <1>6, <2>3 DEF TypeOK, Close
        <3>4. frames' \in [Threads -> Seq(Frame)]
            BY <1>6, <2>3, <2>1 DEF TypeOK, Close
        <3>5. tbc' \in [Threads -> Seq(Nat)]
            BY <1>6 DEF TypeOK, Close
        <3> QED
            BY <3>1, <3>2, <3>3, <3>4, <3>5 DEF TypeOK, HandType, FlagType
    <2> QED
        BY <2>2, <2>3
<1>7. ASSUME NEW t \in Threads, NEW k \in CallFrames, Enter(t, k)
      PROVE  TypeOK'
    <2>0. Append(frames[t], k) \in Seq(Frame)
        BY AppendProperties DEF TypeOK
    <2>1. HandType'
        BY <1>7 DEF TypeOK, HandType, Enter, Executing, Sending,
            Resting, Driving
    <2>2. FlagType'
        BY <1>7 DEF TypeOK, FlagType, Enter, mode, record
    <2>3. StackType'
        BY <1>7, <2>0 DEF TypeOK, StackType, Enter, goStack
    <2> QED
        BY <2>1, <2>2, <2>3 DEF TypeOK, HandType, FlagType, StackType
<1>8. ASSUME NEW t \in Threads, PromotionSwallowed(t)
      PROVE  TypeOK'
    <2>1. HandType'
        BY <1>8 DEF TypeOK, HandType, PromotionSwallowed, Executing, Sending,
            Resting, Driving
    <2>2. FlagType'
        BY <1>8 DEF TypeOK, FlagType, PromotionSwallowed, mode, record
    <2>3. StackType'
        BY <1>8 DEF TypeOK, StackType, PromotionSwallowed, goStack
    <2> QED
        BY <2>1, <2>2, <2>3 DEF TypeOK, HandType, FlagType, StackType
<1>9. ASSUME NEW t \in Threads, Raise(t) \/ GoPanic(t)
      PROVE  TypeOK'
    <2>1. HandType'
        BY <1>9, ZenonT(60) DEF TypeOK, HandType, Raise, GoPanic, Executing, Sending,
            Resting, Driving
    <2>2. FlagType'
        BY <1>9 DEF TypeOK, FlagType, Raise, GoPanic, mode, record
    <2>3. StackType'
        BY <1>9 DEF TypeOK, StackType, Raise, GoPanic, goStack
    <2> QED
        BY <2>1, <2>2, <2>3 DEF TypeOK, HandType, FlagType, StackType
<1>10. ASSUME NEW t \in Threads, RegisterTbc(t)
      PROVE  TypeOK'
    <2>0. Append(tbc[t], Len(frames[t]) + 1) \in Seq(Nat)
        BY AppendProperties, LenProperties DEF TypeOK
    <2>1. HandType'
        BY <1>10 DEF TypeOK, HandType, RegisterTbc, Executing, Sending,
            Resting, Driving
    <2>2. FlagType'
        BY <1>10 DEF TypeOK, FlagType, RegisterTbc, mode, record
    <2>3. StackType'
        BY <1>10, <2>0 DEF TypeOK, StackType, RegisterTbc, goStack
    <2> QED
        BY <2>1, <2>2, <2>3 DEF TypeOK, HandType, FlagType, StackType
<1>11. ASSUME NEW t \in Threads, ScopeExit(t)
      PROVE  TypeOK'
    <2>1. Append(frames[t], "scope") \in Seq(Frame)
        BY AppendProperties DEF TypeOK
    <2> QED
        BY <1>11, <2>1, CallCloseType DEF ScopeExit
<1>12. ASSUME NEW t \in Threads, RunClose(t)
      PROVE  TypeOK'
    <2>1. frames[t] \in Seq(Frame)
        BY DEF TypeOK
    <2> QED
        BY <1>12, <2>1, CallCloseType DEF RunClose
<1>13. ASSUME NEW t \in Threads, EndClose(t)
      PROVE  TypeOK'
    <2>0. Front(frames[t]) \in Seq(Frame)
        BY FrontType DEF TypeOK
    <2>1. HandType'
        BY <1>13 DEF TypeOK, HandType, EndClose, Executing, Sending,
            Resting, Driving
    <2>2. FlagType'
        BY <1>13 DEF TypeOK, FlagType, EndClose, mode, record
    <2>3. StackType'
        BY <1>13, <2>0 DEF TypeOK, StackType, EndClose, goStack
    <2> QED
        BY <2>1, <2>2, <2>3 DEF TypeOK, HandType, FlagType, StackType
<1>14. ASSUME NEW t \in Threads, Return(t)
      PROVE  TypeOK'
    <2>0. Front(frames[t]) \in Seq(Frame)
        BY FrontType DEF TypeOK
    <2>1. HandType'
        BY <1>14 DEF TypeOK, HandType, Return, Executing, Sending,
            Resting, Driving
    <2>2. FlagType'
        BY <1>14 DEF TypeOK, FlagType, Return, mode, record
    <2>3. StackType'
        BY <1>14, <2>0 DEF TypeOK, StackType, Return, goStack
    <2> QED
        BY <2>1, <2>2, <2>3 DEF TypeOK, HandType, FlagType, StackType
<1>15. ASSUME NEW t \in Threads, Catch(t)
      PROVE  TypeOK'
    <2>1. PICK i \in DOMAIN frames[t] :
            \/ Unwind(t, i, Append(SubSeq(frames[t], 1, i - 1), "unwind"))
            \/ Unwind(t, i, AfterHandlerError(SubSeq(frames[t], 1, i - 1)))
            \/ Unwind(t, i, SubSeq(frames[t], 1, i - 1))
        BY <1>15 DEF Catch
    <2>2. frames[t] \in Seq(Frame) /\ i \in Int /\ i - 1 <= Len(frames[t])
        BY <2>1, LenProperties DEF TypeOK
    <2>3. SubSeq(frames[t], 1, i - 1) \in Seq(Frame)
        BY <2>2, PrefixType
    <2>4. /\ Append(SubSeq(frames[t], 1, i - 1), "unwind") \in Seq(Frame)
          /\ AfterHandlerError(SubSeq(frames[t], 1, i - 1)) \in Seq(Frame)
        BY <2>3, AppendProperties, AfterHandlerErrorType
    <2>5. frames' \in [Threads -> Seq(Frame)] /\ nCcalls' \in [Threads -> Int]
        BY <2>1, <2>2, <2>3, <2>4, UnwindType
    <2>6. StackType'
        <3>1. <<>> \in Seq(Nat)
            OBVIOUS
        <3>2. tbc' \in [Threads -> Seq(Nat)]
            BY <1>15, <3>1 DEF TypeOK, Catch
        <3> QED
            BY <2>5, <3>2 DEF StackType
    <2>7. HandType'
        BY <1>15, ZenonT(60) DEF TypeOK, HandType, Catch, Executing
    <2>8. FlagType'
        BY <1>15 DEF TypeOK, FlagType, Catch, mode, record
    <2> QED
        BY <2>6, <2>7, <2>8 DEF TypeOK, HandType, FlagType, StackType
<1>16. ASSUME NEW t \in Threads, CatchPanic(t)
      PROVE  TypeOK'
    <2>1. PICK i \in DOMAIN frames[t] :
            \/ Unwind(t, i, Append(SubSeq(frames[t], 1, i - 1), "unwind"))
            \/ Unwind(t, i, Append(SubSeq(frames[t], 1, i - 1), "coclose"))
        BY <1>16 DEF CatchPanic
    <2>2. frames[t] \in Seq(Frame) /\ i \in Int /\ i - 1 <= Len(frames[t])
        BY <2>1, LenProperties DEF TypeOK
    <2>3. SubSeq(frames[t], 1, i - 1) \in Seq(Frame)
        BY <2>2, PrefixType
    <2>4. /\ Append(SubSeq(frames[t], 1, i - 1), "unwind") \in Seq(Frame)
          /\ Append(SubSeq(frames[t], 1, i - 1), "coclose") \in Seq(Frame)
        BY <2>3, AppendProperties, AfterHandlerErrorType
    <2>5. frames' \in [Threads -> Seq(Frame)] /\ nCcalls' \in [Threads -> Int]
        BY <2>1, <2>2, <2>3, <2>4, UnwindType
    <2>6. StackType'
        <3>1. <<>> \in Seq(Nat)
            OBVIOUS
        <3>2. tbc' \in [Threads -> Seq(Nat)]
            BY <1>16, <3>1 DEF TypeOK, CatchPanic
        <3> QED
            BY <2>5, <3>2 DEF StackType
    <2>7. HandType'
        BY <1>16 DEF TypeOK, HandType, CatchPanic, Executing
    <2>8. FlagType'
        BY <1>16 DEF TypeOK, FlagType, CatchPanic, mode, record
    <2> QED
        BY <2>6, <2>7, <2>8 DEF TypeOK, HandType, FlagType, StackType
<1>17. ASSUME NEW t \in Coroutines, BodyReturnPromoted(t) \/ YieldPromoted(t)
      PROVE  TypeOK'
    <2>1. HandType'
        BY <1>17, ZenonT(60) DEF TypeOK, HandType, BodyReturnPromoted, YieldPromoted, Executing, Sending,
            Resting, Driving
    <2>2. FlagType'
        BY <1>17 DEF TypeOK, FlagType, BodyReturnPromoted, YieldPromoted, mode, record
    <2>3. StackType'
        BY <1>17 DEF TypeOK, StackType, BodyReturnPromoted, YieldPromoted, goStack
    <2> QED
        BY <2>1, <2>2, <2>3 DEF TypeOK, HandType, FlagType, StackType
<1>18. ASSUME NEW t \in Coroutines, EndDeathPromoted(t)
      PROVE  TypeOK'
    <2>1. HandType'
        BY <1>18 DEF TypeOK, HandType, EndDeathPromoted, Executing, Sending,
            Resting, Driving
    <2>2. FlagType'
        BY <1>18 DEF TypeOK, FlagType, EndDeathPromoted, mode, record
    <2>3. StackType'
        BY <1>18 DEF TypeOK, StackType, EndDeathPromoted, goStack
    <2> QED
        BY <2>1, <2>2, <2>3 DEF TypeOK, HandType, FlagType, StackType
<1>19. ASSUME NEW t \in Coroutines, DiePromoted(t)
      PROVE  TypeOK'
    <2>4. <<"death">> \in Seq(Frame) /\ <<>> \in Seq(Frame) /\ 1 \in Int
        OBVIOUS
    <2>0. frames' \in [Threads -> Seq(Frame)] /\ nCcalls' \in [Threads -> Int]
        BY <1>19, <2>4, UnwindType DEF TypeOK, DiePromoted
    <2>1. HandType'
        BY <1>19 DEF TypeOK, HandType, DiePromoted, Executing, Sending,
            Resting, Driving
    <2>2. FlagType'
        BY <1>19 DEF TypeOK, FlagType, DiePromoted, mode, record
    <2>3. StackType'
        BY <1>19, <2>0 DEF TypeOK, StackType, DiePromoted, goStack
    <2> QED
        BY <2>1, <2>2, <2>3 DEF TypeOK, HandType, FlagType, StackType
<1>20. ASSUME NEW t \in Coroutines, PanicPromoted(t)
      PROVE  TypeOK'
    <2>4. <<"death">> \in Seq(Frame) /\ <<>> \in Seq(Frame) /\ 1 \in Int
        OBVIOUS
    <2>0. frames' \in [Threads -> Seq(Frame)] /\ nCcalls' \in [Threads -> Int]
        BY <1>20, <2>4, UnwindType DEF TypeOK, PanicPromoted
    <2>1. HandType'
        BY <1>20 DEF TypeOK, HandType, PanicPromoted, Executing, Sending,
            Resting, Driving
    <2>2. FlagType'
        BY <1>20 DEF TypeOK, FlagType, PanicPromoted, mode, record
    <2>3. StackType'
        BY <1>20, <2>0 DEF TypeOK, StackType, PanicPromoted, goStack
    <2> QED
        BY <2>1, <2>2, <2>3 DEF TypeOK, HandType, FlagType, StackType
<1>21. ASSUME NEW t \in Coroutines, NEW d \in Threads, Promote(t, d)
      PROVE  TypeOK'
    <2>1. HandType'
        BY <1>21 DEF TypeOK, HandType, Promote, Executing, Sending,
            Resting, Driving
    <2>2. FlagType'
        BY <1>21 DEF TypeOK, FlagType, Promote, mode, record
    <2>3. StackType'
        BY <1>21 DEF TypeOK, StackType, Promote, goStack
    <2> QED
        BY <2>1, <2>2, <2>3 DEF TypeOK, HandType, FlagType, StackType
<1>22. ASSUME NEW t \in Coroutines, NEW d \in Threads, BodyReturnSync(t, d)
      PROVE  TypeOK'
    <2>1. HandType'
        BY <1>22 DEF TypeOK, HandType, BodyReturnSync, Executing, Sending,
            Resting, Driving
    <2>2. FlagType'
        BY <1>22 DEF TypeOK, FlagType, BodyReturnSync, mode, record
    <2>3. StackType'
        BY <1>22 DEF TypeOK, StackType, BodyReturnSync, goStack
    <2> QED
        BY <2>1, <2>2, <2>3 DEF TypeOK, HandType, FlagType, StackType
<1>23. ASSUME NEW t \in Coroutines, NEW d \in Threads, EndDeathSync(t, d)
      PROVE  TypeOK'
    <2>1. HandType'
        BY <1>23 DEF TypeOK, HandType, EndDeathSync, Executing, Sending,
            Resting, Driving
    <2>2. FlagType'
        BY <1>23 DEF TypeOK, FlagType, EndDeathSync, mode, record
    <2>3. StackType'
        BY <1>23 DEF TypeOK, StackType, EndDeathSync, goStack
    <2> QED
        BY <2>1, <2>2, <2>3 DEF TypeOK, HandType, FlagType, StackType
<1>24. ASSUME NEW t \in Coroutines, NEW d \in Threads, EndCoClose(t, d)
      PROVE  TypeOK'
    <2>1. HandType'
        BY <1>24 DEF TypeOK, HandType, EndCoClose, Executing, Sending,
            Resting, Driving
    <2>2. FlagType'
        BY <1>24 DEF TypeOK, FlagType, EndCoClose, mode, record
    <2>3. StackType'
        BY <1>24 DEF TypeOK, StackType, EndCoClose, goStack
    <2> QED
        BY <2>1, <2>2, <2>3 DEF TypeOK, HandType, FlagType, StackType
<1>25. ASSUME NEW t \in Coroutines, NEW d \in Threads, YieldSync(t, d)
      PROVE  TypeOK'
    <2>0. CallsAbove(frames[t], 0) \in Int
        BY CallsAboveType DEF TypeOK
    <2>1. HandType'
        BY <1>25 DEF TypeOK, HandType, YieldSync, Executing, Sending,
            Resting, Driving
    <2>2. FlagType'
        BY <1>25 DEF TypeOK, FlagType, YieldSync, mode, record
    <2>3. StackType'
        BY <1>25, <2>0 DEF TypeOK, StackType, YieldSync, goStack
    <2> QED
        BY <2>1, <2>2, <2>3 DEF TypeOK, HandType, FlagType, StackType
<1>26. ASSUME NEW t \in Coroutines, NEW d \in Threads, DieSync(t, d)
      PROVE  TypeOK'
    <2>4. <<"death">> \in Seq(Frame) /\ <<>> \in Seq(Frame) /\ 1 \in Int
        OBVIOUS
    <2>0. frames' \in [Threads -> Seq(Frame)] /\ nCcalls' \in [Threads -> Int]
        BY <1>26, <2>4, UnwindType DEF TypeOK, DieSync
    <2>1. HandType'
        BY <1>26 DEF TypeOK, HandType, DieSync, Executing, Sending,
            Resting, Driving
    <2>2. FlagType'
        BY <1>26 DEF TypeOK, FlagType, DieSync, mode, record
    <2>3. StackType'
        BY <1>26, <2>0 DEF TypeOK, StackType, DieSync, goStack
    <2> QED
        BY <2>1, <2>2, <2>3 DEF TypeOK, HandType, FlagType, StackType
<1>27. ASSUME NEW t \in Coroutines, NEW d \in Threads, PanicSync(t, d)
      PROVE  TypeOK'
    <2>4. <<"death">> \in Seq(Frame) /\ <<>> \in Seq(Frame) /\ 1 \in Int
        OBVIOUS
    <2>0. frames' \in [Threads -> Seq(Frame)] /\ nCcalls' \in [Threads -> Int]
        BY <1>27, <2>4, UnwindType DEF TypeOK, PanicSync
    <2>1. HandType'
        BY <1>27 DEF TypeOK, HandType, PanicSync, Executing, Sending,
            Resting, Driving
    <2>2. FlagType'
        BY <1>27 DEF TypeOK, FlagType, PanicSync, mode, record
    <2>3. StackType'
        BY <1>27, <2>0 DEF TypeOK, StackType, PanicSync, goStack
    <2> QED
        BY <2>1, <2>2, <2>3 DEF TypeOK, HandType, FlagType, StackType
<1>28. ASSUME HostError
      PROVE  TypeOK'
    <2>4. <<"death">> \in Seq(Frame) /\ <<>> \in Seq(Frame) /\ 1 \in Int
        OBVIOUS
    <2>0. frames' \in [Threads -> Seq(Frame)] /\ nCcalls' \in [Threads -> Int]
        BY <1>28, <2>4, UnwindType DEF TypeOK, HostError
    <2>5. tbc' \in [Threads -> Seq(Nat)]
        <3>1. <<>> \in Seq(Nat)
            OBVIOUS
        <3> QED
            BY <1>28, <3>1 DEF TypeOK, HostError
    <2>1. HandType'
        BY <1>28 DEF TypeOK, HandType, HostError, Executing, Sending,
            Resting, Driving
    <2>2. FlagType'
        BY <1>28 DEF TypeOK, FlagType, HostError, mode, record
    <2>3. StackType'
        BY <1>28, <2>0, <2>5 DEF TypeOK, StackType, HostError, goStack
    <2> QED
        BY <2>1, <2>2, <2>3 DEF TypeOK, HandType, FlagType, StackType
<1>29. ASSUME PanicHost
      PROVE  TypeOK'
    <2>4. <<"death">> \in Seq(Frame) /\ <<>> \in Seq(Frame) /\ 1 \in Int
        OBVIOUS
    <2>0. frames' \in [Threads -> Seq(Frame)] /\ nCcalls' \in [Threads -> Int]
        BY <1>29, <2>4, UnwindType DEF TypeOK, PanicHost
    <2>5. tbc' \in [Threads -> Seq(Nat)]
        <3>1. <<>> \in Seq(Nat)
            OBVIOUS
        <3> QED
            BY <1>29, <3>1 DEF TypeOK, PanicHost
    <2>1. HandType'
        BY <1>29 DEF TypeOK, HandType, PanicHost, Executing, Sending,
            Resting, Driving
    <2>2. FlagType'
        BY <1>29 DEF TypeOK, FlagType, PanicHost, mode, record
    <2>3. StackType'
        BY <1>29, <2>0, <2>5 DEF TypeOK, StackType, PanicHost, goStack
    <2> QED
        BY <2>1, <2>2, <2>3 DEF TypeOK, HandType, FlagType, StackType
<1>30. CASE UNCHANGED vars
    BY <1>30 DEF TypeOK, vars, mode, goStack, record
<1> QED
    BY <1>1, <1>2, <1>3, <1>4, <1>5, <1>6, <1>7, <1>8, <1>9, <1>10, <1>11, <1>12, <1>13, <1>14, <1>15, <1>16, <1>17, <1>18, <1>19, <1>20, <1>21, <1>22, <1>23, <1>24, <1>25, <1>26, <1>27, <1>28, <1>29, <1>30 DEF Next

\* The fields of every thread keep their types in every behaviour.
THEOREM TypeCorrect == Spec => []TypeOK
<1>1. Init => TypeOK
    BY ConstantsType DEF Init, TypeOK, Executing, Resting
<1> QED
    BY <1>1, TypeStep, PTL DEF Spec

-----------------------------------------------------------------------------
(* One thread is active.  Threads that rest, drive another thread or have  *)
(* been asked to run are told apart by status, at and callee.              *)

Idle == {"none", "suspended", "dead"}

\* A thread nobody has resumed or closed is at rest.
IdleRests == \A t \in Threads : status[t] \in Idle => at[t] \in Resting

\* A thread that resumes or closes another waits, and is not idle.
CallerWaits ==
    \A t \in Threads : callee[t] # NoThread =>
        at[t] \in Driving \cup {"sendResume"} /\ status[t] \notin Idle

\* The coroutine a send on resumeCh is for has been marked running.
ResumedIsMarked ==
    \A t \in Threads : at[t] = "sendResume" =>
        callee[t] \in Threads /\ status[callee[t]] \notin Idle

HandInv == OneActive /\ IdleRests /\ CallerWaits /\ ResumedIsMarked

\* A step of the active thread that hands control to nobody.
LEMMA KeepsControl ==
    ASSUME TypeOK, HandInv, NEW t \in Threads, at[t] \in Executing,
           NEW p \in Executing \cup Sending \cup {"crash", "gone"},
           at' = [at EXCEPT ![t] = p], status[t] \notin Idle,
           UNCHANGED <<status, callee>>
    PROVE  HandInv'
<1>1. /\ at'[t] = p /\ \A x \in Threads : x # t => at'[x] = at[x]
      /\ at[t] \in Holding
    BY DEF TypeOK, Holding
<1>2. OneActive'
    BY <1>1 DEF HandInv, OneActive
<1>3. IdleRests'
    BY <1>1 DEF HandInv, IdleRests
<1>4. callee[t] = NoThread
    BY DEF HandInv, CallerWaits, Executing, Driving
<1>5. CallerWaits'
    BY <1>1, <1>4 DEF HandInv, CallerWaits
<1>6. p # "sendResume"
    BY DEF Executing, Sending
<1>7. ResumedIsMarked'
    BY <1>1, <1>6 DEF HandInv, ResumedIsMarked
<1> QED
    BY <1>2, <1>3, <1>5, <1>7 DEF HandInv

\* A step in which t comes to rest and the thread d that drove it goes on.
LEMMA HandsBack ==
    ASSUME TypeOK, HandInv, NEW t \in Threads, NEW d \in Threads,
           at[t] \in Executing \cup Sending, callee[d] = t,
           NEW r \in Resting, NEW p \in Executing,
           at'[t] = r, at'[d] = p,
           \A x \in Threads : x \notin {t, d} =>
                at'[x] = at[x] /\ status'[x] = status[x],
           status'[d] \notin Idle,
           callee' = [callee EXCEPT ![d] = NoThread]
    PROVE  HandInv'
<1>1. t # NoThread /\ callee[t] = NoThread
    BY ThreadAssumption DEF HandInv, CallerWaits, Executing, Sending, Driving
<1>2. d # t
    BY <1>1
<1>3. at[t] \in Holding
    BY DEF Holding
<1>4. \A x \in Threads : x # t => at[x] \notin Holding
    BY <1>3 DEF HandInv, OneActive
<1>5. r \notin Holding /\ r # "sendResume" /\ p # "sendResume"
    BY DEF Resting, Holding, Executing, Sending
<1>6. OneActive'
    BY <1>2, <1>4, <1>5 DEF OneActive
<1>7. IdleRests'
    BY <1>2 DEF HandInv, IdleRests
<1>8. CallerWaits'
    BY <1>1, <1>2 DEF TypeOK, HandInv, CallerWaits
<1>9. \A x \in Threads : at'[x] # "sendResume"
    BY <1>2, <1>4, <1>5 DEF Holding
<1> QED
    BY <1>6, <1>7, <1>8, <1>9 DEF HandInv, ResumedIsMarked

\* An executing thread is not idle.
LEMMA ExecutingIsNotIdle ==
    ASSUME HandInv, NEW t \in Threads, at[t] \in Executing \cup Sending
    PROVE  status[t] \notin Idle
BY DEF HandInv, IdleRests, Executing, Sending, Resting

\* Every step keeps at most one thread active.
LEMMA HandStep ==
    ASSUME TypeOK, HandInv, [Next]_vars
    PROVE  HandInv'
<1> USE ThreadAssumption DEF Threads
<1>1. ASSUME NEW t \in Threads, NEW co \in Coroutines, Create(t, co)
      PROVE  HandInv'
    <2>1. callee[co] = NoThread /\ at[co] \in Resting
        BY <1>1 DEF HandInv, CallerWaits, IdleRests, Create, Idle
    <2>2. /\ at' = at /\ callee' = callee /\ status'[co] = "suspended"
          /\ \A x \in Threads : x # co => status'[x] = status[x]
        BY <1>1 DEF Create, TypeOK
    <2>3. at[t] \in Holding /\ at[t] # "sendResume"
        BY <1>1 DEF Create, Holding, Executing
    <2>4. \A x \in Threads : at[x] # "sendResume"
        BY <2>3 DEF HandInv, OneActive, Holding
    <2>5. OneActive' /\ IdleRests' /\ CallerWaits' /\ ResumedIsMarked'
        BY <2>1, <2>2, <2>4 DEF HandInv, OneActive, IdleRests, CallerWaits,
            ResumedIsMarked
    <2> QED
        BY <2>5 DEF HandInv
<1>2. ASSUME NEW t \in Threads, NEW co \in Coroutines, StartResume(t, co),
             NEW p \in {"inResume", "sendResume"},
             at'[t] = p, p = "inResume" => at'[co] = "lua",
             p = "sendResume" => at'[co] = at[co],
             \A x \in Threads : x \notin {t, co} => at'[x] = at[x]
      PROVE  HandInv'
    <2>1. at[co] \in Resting /\ callee[co] = NoThread /\ at[t] = "lua"
        BY <1>2 DEF HandInv, IdleRests, CallerWaits, StartResume, Resumable, Idle
    <2>2. co # t
        BY <2>1 DEF Resting
    <2>3. at[t] \in Holding
        BY <2>1 DEF Holding, Executing
    <2>4. \A x \in Threads : x # t => at[x] \notin Holding
        BY <2>3 DEF HandInv, OneActive
    <2>5. /\ status'[co] = "running" /\ status'[t] = "normal"
          /\ callee'[t] = co
          /\ \A x \in Threads : x \notin {t, co} => status'[x] = status[x]
          /\ \A x \in Threads : x # t => callee'[x] = callee[x]
        BY <1>2, <2>2 DEF StartResume, Handover, TypeOK
    <2>6. "inResume" \notin Holding
        BY DEF Holding, Executing, Sending
    <2>7. OneActive'
        BY <1>2, <2>4, <2>6 DEF OneActive
    <2>8. IdleRests'
        BY <1>2, <2>5 DEF HandInv, IdleRests, Idle
    <2>9. CallerWaits'
        BY <1>2, <2>1, <2>2, <2>5 DEF HandInv, CallerWaits, Idle, Driving
    <2>10. ResumedIsMarked'
        BY <1>2, <2>4, <2>5 DEF ResumedIsMarked, Idle, Holding
    <2> QED
        BY <2>7, <2>8, <2>9, <2>10 DEF HandInv
<1>3. ASSUME NEW t \in Threads, NEW co \in Coroutines, ResumeSync(t, co)
      PROVE  HandInv'
    <2>1. co # t
        BY <1>3 DEF ResumeSync, StartResume, Resumable, HandInv, IdleRests, Idle,
            Resting
    <2>2. /\ StartResume(t, co) /\ at'[t] = "inResume" /\ at'[co] = "lua"
          /\ \A x \in Threads : x \notin {t, co} => at'[x] = at[x]
        BY <1>3, <2>1 DEF ResumeSync, TypeOK
    <2> QED
        BY <1>2, <2>2
<1>4. ASSUME NEW t \in Threads, NEW co \in Coroutines, ResumePromoted(t, co)
      PROVE  HandInv'
    <2>1. co # t
        BY <1>4 DEF ResumePromoted, StartResume, Resumable, HandInv, IdleRests,
            Idle, Resting
    <2>2. /\ StartResume(t, co) /\ at'[t] = "sendResume" /\ at'[co] = at[co]
          /\ \A x \in Threads : x \notin {t, co} => at'[x] = at[x]
        BY <1>4, <2>1 DEF ResumePromoted, TypeOK
    <2> QED
        BY <1>2, <2>2
<1>5. ASSUME NEW t \in Threads, NEW co \in Coroutines, Handoff(t, co)
      PROVE  HandInv'
    <2>1. /\ at[t] = "sendResume" /\ callee[t] = co /\ at[co] = "recv"
          /\ status' = status /\ callee' = callee
        BY <1>5 DEF Handoff
    <2>2. co # t
        BY <2>1
    <2>3. /\ at'[t] = "recvYield" /\ at'[co] = "lua"
          /\ \A x \in Threads : x \notin {t, co} => at'[x] = at[x]
        BY <1>5, <2>2 DEF Handoff, TypeOK
    <2>4. at[t] \in Holding
        BY <2>1 DEF Holding
    <2>5. \A x \in Threads : x # t => at[x] \notin Holding
        BY <2>4 DEF HandInv, OneActive
    <2>6. OneActive'
        BY <2>3, <2>5 DEF OneActive, Holding, Executing, Sending
    <2>7. IdleRests'
        BY <2>1, <2>3 DEF HandInv, IdleRests, CallerWaits, ResumedIsMarked
    <2>8. callee[co] = NoThread
        BY <2>1 DEF HandInv, CallerWaits, Driving
    <2>9. CallerWaits'
        BY <2>1, <2>3, <2>8 DEF HandInv, CallerWaits, Driving
    <2>10. ResumedIsMarked'
        BY <2>3, <2>5 DEF ResumedIsMarked, Holding
    <2> QED
        BY <2>6, <2>7, <2>9, <2>10 DEF HandInv
<1>6. ASSUME NEW d \in Threads, NEW t \in Coroutines, RecvCoMsg(d, t)
      PROVE  HandInv'
    <2>1. at[t] \in Sending /\ callee[d] = t /\ at[d] = "recvYield"
        BY <1>6 DEF RecvCoMsg
    <2>2. d # t
        BY <2>1 DEF Sending
    <2>3. AfterMessage(t) \in Resting /\ "lua" \in Executing
        BY DEF AfterMessage, Resting, Executing
    <2>4. /\ at'[t] = AfterMessage(t) /\ at'[d] = "lua"
          /\ \A x \in Threads : x \notin {t, d} =>
                at'[x] = at[x] /\ status'[x] = status[x]
          /\ status'[d] = "running"
          /\ callee' = [callee EXCEPT ![d] = NoThread]
        BY <1>6, <2>2 DEF RecvCoMsg, TypeOK
    <2>5. status'[d] \notin Idle
        BY <2>4 DEF Idle
    <2> QED
        BY <2>1, <2>3, <2>4, <2>5, HandsBack
<1>7. ASSUME NEW t \in Threads, NEW co \in Coroutines, Close(t, co)
      PROVE  HandInv'
    <2>1. /\ at[t] = "lua" /\ status[co] \in Idle
          /\ at[co] \in Resting /\ callee[co] = NoThread
        BY <1>7 DEF Close, Idle, HandInv, IdleRests, CallerWaits
    <2>2. co # t
        BY <2>1 DEF Resting
    <2>3. at[t] \in Holding
        BY <2>1 DEF Holding, Executing
    <2>4. \A x \in Threads : x # t => at[x] \notin Holding
        BY <2>3 DEF HandInv, OneActive
    <2>5. \A x \in Threads : at[x] # "sendResume"
        BY <2>1, <2>4 DEF Holding
    <2>6. status[t] \notin Idle
        BY <2>1 DEF HandInv, IdleRests, Resting
    <2>7. CASE tbc[co] # <<>>
        <3>1. /\ status' = [status EXCEPT ![co] = "running"]
              /\ at' = [at EXCEPT ![t] = "inClose", ![co] = "closing"]
              /\ callee' = [callee EXCEPT ![t] = co]
            BY <1>7, <2>7 DEF Close
        <3>2. /\ status'[co] = "running"
              /\ at'[t] = "inClose" /\ at'[co] = "closing" /\ callee'[t] = co
              /\ \A x \in Threads : x # co => status'[x] = status[x]
              /\ \A x \in Threads : x \notin {t, co} => at'[x] = at[x]
              /\ \A x \in Threads : x # t => callee'[x] = callee[x]
            BY <2>2, <3>1 DEF TypeOK
        <3>3. OneActive'
            BY <2>4, <3>2 DEF OneActive, Holding, Executing, Sending
        <3>4. IdleRests'
            BY <2>6, <3>2 DEF HandInv, IdleRests, Idle
        <3>5. CallerWaits'
            BY <2>1, <2>2, <2>6, <3>2 DEF HandInv, CallerWaits, Driving
        <3>6. ResumedIsMarked'
            BY <2>5, <3>2 DEF ResumedIsMarked
        <3> QED
            BY <3>3, <3>4, <3>5, <3>6 DEF HandInv
    <2>8. CASE tbc[co] = <<>>
        <3>1. /\ status' = [status EXCEPT ![co] = "dead"]
              /\ at' = at /\ callee' = callee
            BY <1>7, <2>8 DEF Close
        <3>2. \A x \in Threads : x # co => status'[x] = status[x]
            BY <3>1 DEF TypeOK
        <3>3. OneActive' /\ ResumedIsMarked'
            BY <2>5, <3>1 DEF HandInv, OneActive, ResumedIsMarked
        <3>4. IdleRests' /\ CallerWaits'
            BY <2>1, <3>1, <3>2 DEF HandInv, IdleRests, CallerWaits
        <3> QED
            BY <3>3, <3>4 DEF HandInv
    <2> QED
        BY <2>7, <2>8
<1>8. ASSUME NEW t \in Threads,
             \/ \E k \in CallFrames \ {"handler"} : Enter(t, k)
             \/ PromotionSwallowed(t) \/ RegisterTbc(t)
      PROVE  HandInv'
    <2>1. at' = at /\ status' = status /\ callee' = callee
        BY <1>8 DEF Enter, PromotionSwallowed, RegisterTbc
    <2> QED
        BY <2>1 DEF HandInv, OneActive, IdleRests, CallerWaits, ResumedIsMarked
<1>9. ASSUME NEW t \in Threads,
             \/ ScopeExit(t) \/ RunClose(t) \/ EndClose(t) \/ Return(t)
             \/ Raise(t) \/ Catch(t) \/ GoPanic(t) \/ CatchPanic(t)
      PROVE  HandInv'
    <2>1. at[t] \in Executing /\ UNCHANGED <<status, callee>>
        BY <1>9 DEF ScopeExit, RunClose, CallClose, EndClose, Return, Raise,
            Catch, GoPanic, CatchPanic, Executing
    <2>2. \E p \in Executing : at' = [at EXCEPT ![t] = p]
        BY <1>9 DEF ScopeExit, RunClose, CallClose, EndClose, Return, Raise,
            Catch, GoPanic, CatchPanic, Executing
    <2>3. status[t] \notin Idle
        BY <2>1, ExecutingIsNotIdle
    <2> QED
        BY <2>1, <2>2, <2>3, KeepsControl
<1>10. ASSUME NEW t \in Coroutines,
              \/ BodyReturnPromoted(t) \/ YieldPromoted(t) \/ DiePromoted(t)
              \/ EndDeathPromoted(t) \/ PanicPromoted(t)
       PROVE  HandInv'
    <2>1. at[t] \in Executing /\ UNCHANGED <<status, callee>>
        BY <1>10 DEF BodyReturnPromoted, YieldPromoted, MayYield, DiePromoted,
            Uncaught, EndDeathPromoted, PanicPromoted, PanicUncaught, Executing
    <2>2. \E p \in Executing \cup Sending \cup {"crash"} :
                at' = [at EXCEPT ![t] = p]
        BY <1>10 DEF BodyReturnPromoted, YieldPromoted, DiePromoted,
            EndDeathPromoted, PanicPromoted, Executing, Sending
    <2>3. status[t] \notin Idle
        BY <2>1, ExecutingIsNotIdle
    <2> QED
        BY <2>1, <2>2, <2>3, KeepsControl
<1>11. ASSUME NEW t \in Coroutines, NEW d \in Threads, Promote(t, d)
       PROVE  HandInv'
    <2>1. /\ at[t] = "lua" /\ callee[d] = t
          /\ status' = status /\ callee' = callee
        BY <1>11 DEF Promote
    <2>2. d # t /\ status[d] \notin Idle
        BY <2>1 DEF HandInv, CallerWaits, Driving
    <2>3. at'[d] = "recvYield" /\ \A x \in Threads : x # d => at'[x] = at[x]
        BY <1>11 DEF Promote, TypeOK
    <2>4. OneActive'
        BY <2>3 DEF HandInv, OneActive, Holding, Executing, Sending
    <2>5. IdleRests' /\ CallerWaits' /\ ResumedIsMarked'
        BY <2>1, <2>2, <2>3 DEF HandInv, IdleRests, CallerWaits,
            ResumedIsMarked, Driving
    <2> QED
        BY <2>4, <2>5 DEF HandInv
<1>12. ASSUME NEW t \in Coroutines, NEW d \in Threads,
              \/ BodyReturnSync(t, d) \/ YieldSync(t, d) \/ EndDeathSync(t, d)
              \/ EndCoClose(t, d) \/ PanicSync(t, d)
       PROVE  HandInv'
    <2>1. /\ at[t] \in Executing /\ callee[d] = t
          /\ callee' = [callee EXCEPT ![d] = NoThread]
        BY <1>12 DEF BodyReturnSync, YieldSync, MayYield, EndDeathSync,
            EndCoClose, PanicSync, PanicUncaught, Executing
    <2>2. d # t /\ status[d] \notin Idle
        BY <2>1 DEF HandInv, CallerWaits, Driving, Executing
    <2>3. \E p \in {"lua", "panic"} : at' = [at EXCEPT ![t] = "parked", ![d] = p]
        BY <1>12 DEF BodyReturnSync, YieldSync, EndDeathSync, EndCoClose,
            PanicSync
    <2>4. PICK p \in {"lua", "panic"} :
            /\ at'[t] = "parked" /\ at'[d] = p
            /\ \A x \in Threads : x \notin {t, d} => at'[x] = at[x]
        BY <2>2, <2>3 DEF TypeOK
    <2>5. /\ status'[d] \notin Idle
          /\ \A x \in Threads : x \notin {t, d} => status'[x] = status[x]
        BY <1>12, <2>2 DEF BodyReturnSync, YieldSync, EndDeathSync, EndCoClose,
            PanicSync, TypeOK, Idle
    <2>6. "parked" \in Resting /\ p \in Executing
        BY <2>4 DEF Resting, Executing
    <2> QED
        BY <2>1, <2>4, <2>5, <2>6, HandsBack, ZenonT(60)
<1>13. ASSUME NEW t \in Coroutines, NEW d \in Threads, DieSync(t, d)
       PROVE  HandInv'
    <2>1. /\ at[t] = "raise" /\ callee[d] = t /\ callee' = callee
          /\ at' = [at EXCEPT ![t] = "closing"]
          /\ status' = [status EXCEPT ![d] = "running"]
        BY <1>13 DEF DieSync, Uncaught
    <2>2. d # t /\ status[t] \notin Idle
        BY <2>1, ExecutingIsNotIdle DEF HandInv, CallerWaits, Driving, Executing
    <2>3. /\ at'[t] = "closing" /\ \A x \in Threads : x # t => at'[x] = at[x]
          /\ status'[d] = "running"
          /\ \A x \in Threads : x # d => status'[x] = status[x]
        BY <2>1 DEF TypeOK
    <2>4. at[t] \in Holding
        BY <2>1 DEF Holding, Executing
    <2>5. OneActive'
        BY <2>3, <2>4 DEF HandInv, OneActive
    <2>6. IdleRests'
        BY <2>2, <2>3 DEF HandInv, IdleRests, Idle
    <2>7. CallerWaits'
        BY <2>1, <2>3 DEF HandInv, CallerWaits, Driving, Idle
    <2>8. ResumedIsMarked'
        BY <2>1, <2>3 DEF HandInv, ResumedIsMarked, Idle
    <2> QED
        BY <2>5, <2>6, <2>7, <2>8 DEF HandInv
<1>14. ASSUME HostError \/ PanicHost
       PROVE  HandInv'
    <2>1. Main \in Threads /\ at[Main] \in Executing /\ UNCHANGED <<status, callee>>
        BY <1>14 DEF HostError, PanicHost, Uncaught, PanicUncaught, Executing
    <2>2. \E p \in Executing \cup {"gone"} : at' = [at EXCEPT ![Main] = p]
        BY <1>14 DEF HostError, PanicHost, Executing
    <2>3. status[Main] \notin Idle
        BY <2>1, ExecutingIsNotIdle
    <2> QED
        BY <2>1, <2>2, <2>3, KeepsControl
<1>15. CASE UNCHANGED vars
    BY <1>15 DEF vars, HandInv, OneActive, IdleRests, CallerWaits,
        ResumedIsMarked
<1> QED
    BY <1>1, <1>3, <1>4, <1>5, <1>6, <1>7, <1>8, <1>9, <1>10, <1>11, <1>12,
       <1>13, <1>14, <1>15 DEF Next

\* Only one thread is ever active (lstate.go:77-79), whatever the number of
\* coroutines, the limits, the mode and the Lua program.
THEOREM OnlyOneActive == Spec => []OneActive
<1>1. Init => HandInv
    BY ThreadAssumption DEF Init, HandInv, OneActive, IdleRests, CallerWaits,
        ResumedIsMarked, Holding, Executing, Sending, Idle, Resting, Threads
<1>2. TypeOK /\ HandInv /\ [Next]_vars => HandInv'
    BY HandStep
<1>3. HandInv => OneActive
    BY DEF HandInv
<1> QED
    BY <1>1, <1>2, <1>3, TypeCorrect, PTL DEF Spec
-----------------------------------------------------------------------------
(* The Go-level frames of a thread.                                        *)

\* The frame the thread's activity started with.
Outermost(fs) == IF fs = <<>> THEN "none" ELSE fs[1]

\* runCloses calls handlers and nothing else does; it is run at the bottom of a
\* stack when a coroutine dies or is closed.
Stacked(fs) ==
    \A i \in DOMAIN fs :
        /\ fs[i] = "handler" <=> i > 1 /\ fs[i - 1] \in CloseFrames
        /\ fs[i] \in {"death", "coclose"} => i = 1

\* A thread is in runCloses exactly if that is its innermost frame.
Topped(fs, p) == p = "closing" <=> fs # <<>> /\ fs[Len(fs)] \in CloseFrames

FrameInv == \A t \in Threads : Stacked(frames[t]) /\ Topped(frames[t], at[t])

LEMMA SmallStacks ==
    /\ <<>> \in Seq(Frame) /\ Stacked(<<>>) /\ Outermost(<<>>) = "none"
    /\ \A p : Topped(<<>>, p) <=> p # "closing"
    /\ \A k \in {"death", "coclose"} :
           /\ <<k>> \in Seq(Frame) /\ Stacked(<<k>>) /\ Topped(<<k>>, "closing")
           /\ Outermost(<<k>>) = k
<1>1. ASSUME NEW k \in {"death", "coclose"}
      PROVE  /\ <<k>> \in Seq(Frame) /\ Stacked(<<k>>) /\ Topped(<<k>>, "closing")
             /\ Outermost(<<k>>) = k
    <2>1. k \in Frame /\ k \in CloseFrames /\ k # "handler"
        BY DEF Frame, CloseFrames
    <2>2. <<k>> \in Seq(Frame) /\ Len(<<k>>) = 1 /\ <<k>>[1] = k /\ DOMAIN <<k>> = {1} /\ <<k>> # <<>>
        BY <2>1
    <2> QED
        BY <2>1, <2>2 DEF Stacked, Topped, Outermost
<1>2. <<>> \in Seq(Frame) /\ Stacked(<<>>) /\ Outermost(<<>>) = "none"
    BY DEF Stacked, Outermost
<1>3. \A p : Topped(<<>>, p) <=> p # "closing"
    BY DEF Topped
<1> QED
    BY <1>1, <1>2, <1>3

\* A stack's length and outermost frame.
LEMMA StackFacts ==
    ASSUME NEW fs \in Seq(Frame)
    PROVE  /\ Len(fs) \in Nat /\ DOMAIN fs = 1 .. Len(fs)
           /\ fs = <<>> <=> Len(fs) = 0
           /\ fs # <<>> => Outermost(fs) = fs[1] /\ fs[Len(fs)] \in Frame /\ Last(fs) = fs[Len(fs)]
           /\ fs = <<>> => Outermost(fs) = "none"
BY LenProperties, EmptySeq, ElementOfSeq DEF Outermost, Last

\* A frame is pushed: a handler over a close frame, anything else over a call.
LEMMA PushFrame ==
    ASSUME NEW fs \in Seq(Frame), Stacked(fs), NEW k \in Frame, k \notin {"death", "coclose"},
           k = "handler" <=> fs # <<>> /\ fs[Len(fs)] \in CloseFrames
    PROVE  /\ Append(fs, k) \in Seq(Frame) /\ Stacked(Append(fs, k))
           /\ \A p : Topped(Append(fs, k), p) <=> (p = "closing" <=> k \in CloseFrames)
           /\ Outermost(Append(fs, k)) = IF fs = <<>> THEN k ELSE Outermost(fs)
<1> DEFINE g == Append(fs, k)
<1>1. /\ g \in Seq(Frame) /\ Len(g) = Len(fs) + 1 /\ g[Len(fs) + 1] = k
      /\ \A i \in 1 .. Len(fs) : g[i] = fs[i]
    BY AppendProperties
<1>2. Len(fs) \in Nat /\ DOMAIN fs = 1 .. Len(fs) /\ (fs = <<>> <=> Len(fs) = 0)
    BY StackFacts
<1>3. DOMAIN g = 1 .. Len(fs) + 1 /\ g # <<>>
    BY <1>1, <1>2, LenProperties, EmptySeq
<1> HIDE DEF g
<1>4. \A i \in 1 .. Len(fs) : /\ fs[i] = "handler" <=> i > 1 /\ fs[i - 1] \in CloseFrames
                              /\ fs[i] \in {"death", "coclose"} => i = 1
    BY <1>2 DEF Stacked
<1>5. ASSUME NEW i \in 1 .. Len(fs) + 1
      PROVE  /\ g[i] = "handler" <=> i > 1 /\ g[i - 1] \in CloseFrames
             /\ g[i] \in {"death", "coclose"} => i = 1
    <2>1. CASE i <= Len(fs)
        <3>1. i \in 1 .. Len(fs) /\ (i > 1 => i - 1 \in 1 .. Len(fs))
            BY <1>2, <2>1
        <3> QED
            BY <1>1, <1>4, <3>1
    <2>2. CASE i = Len(fs) + 1
        <3>1. i > 1 <=> fs # <<>>
            BY <1>2, <2>2
        <3>2. i > 1 => i - 1 = Len(fs) /\ g[i - 1] = fs[Len(fs)]
            BY <1>1, <1>2, <2>2
        <3> QED
            BY <1>1, <2>2, <3>1, <3>2
    <2> QED
        BY <1>2, <2>1, <2>2
<1>6. Stacked(g)
    BY <1>3, <1>5 DEF Stacked
<1>7. \A p : Topped(g, p) <=> (p = "closing" <=> k \in CloseFrames)
    BY <1>1, <1>3 DEF Topped
<1>8. Outermost(g) = IF fs = <<>> THEN k ELSE Outermost(fs)
    BY <1>1, <1>2, <1>3 DEF Outermost
<1> QED
    BY <1>1, <1>6, <1>7, <1>8 DEF g

\* The stack is cut back to its first n frames; what was above frame n tells
\* whether that is a close frame.
LEMMA CutFrames ==
    ASSUME NEW fs \in Seq(Frame), Stacked(fs), NEW n \in 0 .. Len(fs)
    PROVE  /\ SubSeq(fs, 1, n) \in Seq(Frame) /\ Stacked(SubSeq(fs, 1, n))
           /\ Len(SubSeq(fs, 1, n)) = n /\ (n = 0 <=> SubSeq(fs, 1, n) = <<>>)
           /\ n > 0 => /\ SubSeq(fs, 1, n)[n] = fs[n]
                       /\ Outermost(SubSeq(fs, 1, n)) = Outermost(fs)
           /\ 0 < n /\ n < Len(fs) => (fs[n] \in CloseFrames <=> fs[n + 1] = "handler")
<1> DEFINE g == SubSeq(fs, 1, n)
<1>1. Len(fs) \in Nat /\ DOMAIN fs = 1 .. Len(fs) /\ (fs = <<>> <=> Len(fs) = 0) /\ n \in Int
    BY StackFacts
<1>2. g \in Seq(Frame) /\ Len(g) = n /\ \A i \in 1 .. n : g[i] = fs[i]
    BY <1>1, PrefixType
<1>3. DOMAIN g = 1 .. n /\ (n = 0 <=> g = <<>>)
    BY <1>2, StackFacts
<1> HIDE DEF g
<1>4. \A i \in 1 .. Len(fs) : /\ fs[i] = "handler" <=> i > 1 /\ fs[i - 1] \in CloseFrames
                              /\ fs[i] \in {"death", "coclose"} => i = 1
    BY <1>1 DEF Stacked
<1>5. Stacked(g)
    <2> SUFFICES ASSUME NEW i \in 1 .. n
                 PROVE  /\ g[i] = "handler" <=> i > 1 /\ g[i - 1] \in CloseFrames
                        /\ g[i] \in {"death", "coclose"} => i = 1
        BY <1>3 DEF Stacked
    <2>1. i \in 1 .. Len(fs) /\ (i > 1 => i - 1 \in 1 .. n)
        BY <1>1
    <2> QED
        BY <1>2, <1>4, <2>1
<1>6. n > 0 => g[n] = fs[n] /\ g[1] = fs[1]
    BY <1>1, <1>2
<1>7. 0 < n /\ n < Len(fs) => (fs[n] \in CloseFrames <=> fs[n + 1] = "handler")
    <2> SUFFICES ASSUME 0 < n, n < Len(fs)
                 PROVE  fs[n] \in CloseFrames <=> fs[n + 1] = "handler"
        OBVIOUS
    <2>1. n + 1 \in 1 .. Len(fs) /\ n + 1 > 1 /\ (n + 1) - 1 = n
        BY <1>1
    <2> QED
        BY <1>4, <2>1
<1> QED
    BY <1>1, <1>2, <1>3, <1>5, <1>6, <1>7 DEF g, Outermost

\* Front cuts the innermost frame.
LEMMA FrontCuts ==
    ASSUME NEW fs \in Seq(Frame), fs # <<>>
    PROVE  Front(fs) = SubSeq(fs, 1, Len(fs) - 1) /\ Len(fs) - 1 \in 0 .. Len(fs)
BY StackFacts DEF Front

\* A handler's error replaces the close frame by one of the same kind or one
\* that raises again.
LEMMA HandlerErrorFrames ==
    ASSUME NEW fs \in Seq(Frame), Stacked(fs), fs # <<>>, fs[Len(fs)] \in CloseFrames
    PROVE  /\ AfterHandlerError(fs) \in Seq(Frame) /\ Stacked(AfterHandlerError(fs))
           /\ Topped(AfterHandlerError(fs), "closing")
           /\ Outermost(AfterHandlerError(fs)) = Outermost(fs) \/ Outermost(fs) = "scope"
           /\ Outermost(AfterHandlerError(fs)) \in {Outermost(fs), "rethrow"}
           /\ Len(AfterHandlerError(fs)) = Len(fs)
           /\ \A i \in 1 .. Len(fs) - 1 : AfterHandlerError(fs)[i] = fs[i]
           /\ \/ AfterHandlerError(fs)[Len(fs)] = fs[Len(fs)]
              \/ fs[Len(fs)] = "scope" /\ AfterHandlerError(fs)[Len(fs)] = "rethrow"
<1>1. Len(fs) \in Nat \ {0} /\ Last(fs) = fs[Len(fs)] /\ Outermost(fs) = fs[1]
    BY StackFacts
<1>2. CASE Last(fs) # "scope"
    <2>1. AfterHandlerError(fs) = fs
        BY <1>2, SMTT(30) DEF AfterHandlerError
    <2> QED
        BY <1>1, <2>1, SMTT(30) DEF Topped
<1>3. CASE Last(fs) = "scope"
    <2> DEFINE g == Front(fs)
    <2>1. AfterHandlerError(fs) = Append(g, "rethrow")
        BY <1>3 DEF AfterHandlerError
    <2>2. g = SubSeq(fs, 1, Len(fs) - 1) /\ Len(fs) - 1 \in 0 .. Len(fs)
        BY FrontCuts
    <2> DEFINE n == Len(fs) - 1
    <2>3. /\ g \in Seq(Frame) /\ Stacked(g) /\ Len(g) = n /\ (n = 0 <=> g = <<>>)
          /\ n > 0 => g[n] = fs[n] /\ Outermost(g) = Outermost(fs)
          /\ 0 < n /\ n < Len(fs) => (fs[n] \in CloseFrames <=> fs[n + 1] = "handler")
        BY <2>2, CutFrames
    <2>4. \A i \in 1 .. n : g[i] = fs[i]
        BY FrontType
    <2>5. n < Len(fs) /\ n + 1 = Len(fs) /\ fs[n + 1] # "handler" /\ n \in Nat
        <3>1. n < Len(fs) /\ n + 1 = Len(fs) /\ n \in Nat
            BY <1>1
        <3>2. fs[Len(fs)] = "scope"
            BY <1>1, <1>3
        <3> HIDE DEF n
        <3> QED
            BY <3>1, <3>2
    <2> HIDE DEF g, n
    <2>6. /\ "rethrow" \in Frame /\ "rethrow" \in CloseFrames
          /\ "rethrow" \notin {"death", "coclose", "handler"}
        BY DEF Frame, CloseFrames
    <2>7. g # <<>> => g[Len(g)] \notin CloseFrames
        BY <2>3, <2>5
    <2>8. /\ Append(g, "rethrow") \in Seq(Frame) /\ Stacked(Append(g, "rethrow"))
          /\ Topped(Append(g, "rethrow"), "closing")
          /\ Outermost(Append(g, "rethrow")) = IF g = <<>> THEN "rethrow" ELSE Outermost(g)
        BY <2>3, <2>6, <2>7, PushFrame
    <2>9. /\ Len(Append(g, "rethrow")) = n + 1 /\ Append(g, "rethrow")[n + 1] = "rethrow"
          /\ \A i \in 1 .. n : Append(g, "rethrow")[i] = g[i]
        BY <2>3, AppendProperties
    <2>10. g = <<>> => Len(fs) = 1 /\ Outermost(fs) = "scope"
        <3>1. fs[Len(fs)] = "scope"
            BY <1>1, <1>3
        <3>2. g = <<>> => Len(fs) = 1
            BY <2>3, <2>5
        <3> QED
            BY <1>1, <3>1, <3>2
    <2>11. g # <<>> => Outermost(g) = Outermost(fs)
        BY <2>3, <2>5
    <2> QED
        BY <1>1, <1>3, <2>1, <2>4, <2>5, <2>8, <2>9, <2>10, <2>11 DEF n
<1> QED
    BY <1>2, <1>3

\* The steps of a thread that keep it executing.
Local(t) ==
    \/ \E k \in CallFrames \ {"handler"} : Enter(t, k)
    \/ PromotionSwallowed(t) \/ RegisterTbc(t) \/ Raise(t) \/ GoPanic(t)
    \/ ScopeExit(t) \/ RunClose(t) \/ EndClose(t) \/ Return(t) \/ Catch(t) \/ CatchPanic(t)

\* A thread that dies or is closed goes on doing so, and one whose outermost
\* frame forbids yields has that frame until it has none.
OuterKept(fs, g) ==
    /\ \A c \in {"death", "coclose"} : Outermost(g) = c <=> Outermost(fs) = c
    /\ Outermost(fs) \in {"noyield", "gc"} => Outermost(g) \in {Outermost(fs), "none"}

Flat == {"none", "noyield", "gc"}

StackMove(t, g, p) ==
    /\ frames' = [frames EXCEPT ![t] = g] /\ at' = [at EXCEPT ![t] = p]
    /\ p \in Executing /\ g \in Seq(Frame) /\ Stacked(g) /\ Topped(g, p)
    /\ OuterKept(frames[t], g)
    /\ frames[t] = <<>> /\ MustPromote(t) /\ ~OwnsTbc(t) => Outermost(g) \in Flat

\* The handlers run by the close frame on top of fs.
LEMMA CallCloseMoves ==
    ASSUME TypeOK, NEW t \in Threads, NEW fs \in Seq(Frame), CallClose(t, fs),
           Stacked(fs), fs # <<>>, fs[Len(fs)] \in CloseFrames,
           OuterKept(frames[t], fs), frames[t] # <<>> \/ OwnsTbc(t)
    PROVE  \E g, p : StackMove(t, g, p)
<1>1. CASE nCcalls[t] < MaxCCalls
    <2> DEFINE g == Append(fs, "handler")
    <2>1. frames' = [frames EXCEPT ![t] = g] /\ at' = [at EXCEPT ![t] = "lua"]
        <3>1. ~(nCcalls[t] >= MaxCCalls)
            BY <1>1, BoundAssumption DEF TypeOK
        <3> QED
            BY <3>1 DEF CallClose
    <2>2. "handler" \in Frame /\ "handler" \notin CloseFrames /\ "lua" \in Executing
        BY DEF Frame, CallFrames, CloseFrames, Executing
    <2>3. g \in Seq(Frame) /\ Stacked(g) /\ Topped(g, "lua") /\ Outermost(g) = Outermost(fs)
        BY <2>2, PushFrame
    <2> HIDE DEF g
    <2>4. OuterKept(frames[t], g)
        BY <2>3 DEF OuterKept
    <2>5. StackMove(t, g, "lua")
        BY <2>1, <2>2, <2>3, <2>4 DEF StackMove
    <2> QED
        BY <2>5
<1>2. CASE ~(nCcalls[t] < MaxCCalls)
    <2> DEFINE g == AfterHandlerError(fs)
    <2>1. frames' = [frames EXCEPT ![t] = g] /\ at' = [at EXCEPT ![t] = "closing"]
        BY <1>2 DEF CallClose
    <2>2. /\ g \in Seq(Frame) /\ Stacked(g) /\ Topped(g, "closing")
          /\ Outermost(g) = Outermost(fs) \/ Outermost(fs) = "scope"
          /\ Outermost(g) \in {Outermost(fs), "rethrow"}
        BY HandlerErrorFrames
    <2> HIDE DEF g
    <2>3. OuterKept(frames[t], g)
        BY <2>2 DEF OuterKept
    <2>4. "closing" \in Executing
        BY DEF Executing
    <2>5. StackMove(t, g, "closing")
        BY <2>1, <2>2, <2>3, <2>4 DEF StackMove
    <2> QED
        BY <2>5
<1> QED
    BY <1>1, <1>2

\* A caught error or panic cuts the stack back below the frame that caught it.
LEMMA CaughtFrames ==
    ASSUME NEW fs \in Seq(Frame), Stacked(fs), NEW i \in DOMAIN fs
    PROVE  LET below == SubSeq(fs, 1, i - 1) IN
           /\ fs[i] = "pcall" => LET g == Append(below, "unwind") IN
                /\ g \in Seq(Frame) /\ Stacked(g) /\ Topped(g, "closing") /\ OuterKept(fs, g)
           /\ fs[i] = "handler" => LET g == AfterHandlerError(below) IN
                /\ g \in Seq(Frame) /\ Stacked(g) /\ Topped(g, "closing") /\ OuterKept(fs, g)
           /\ fs[i] = "gc" =>
                /\ below \in Seq(Frame) /\ Stacked(below) /\ Topped(below, "lua")
                /\ OuterKept(fs, below)
           /\ fs[i] = "coclose" => i = 1 /\ Append(below, "coclose") = <<"coclose">>
<1> DEFINE n == i - 1
           below == SubSeq(fs, 1, n)
<1>1. /\ Len(fs) \in Nat /\ DOMAIN fs = 1 .. Len(fs) /\ i \in 1 .. Len(fs)
      /\ n \in 0 .. Len(fs) /\ n + 1 = i /\ n < Len(fs) /\ fs # <<>> /\ n \in Nat
      /\ Outermost(fs) = fs[1]
    BY StackFacts
<1>2. fs[i] = "handler" <=> i > 1 /\ fs[i - 1] \in CloseFrames
    BY DEF Stacked
<1>3. fs[i] = "coclose" => i = 1
    BY DEF Stacked
<1> HIDE DEF n
<1>4. /\ below \in Seq(Frame) /\ Stacked(below)
      /\ Len(below) = n /\ (n = 0 <=> below = <<>>)
      /\ n > 0 => below[n] = fs[n] /\ Outermost(below) = Outermost(fs)
      /\ 0 < n /\ n < Len(fs) => (fs[n] \in CloseFrames <=> fs[n + 1] = "handler")
    BY <1>1, CutFrames
<1> HIDE DEF below
<1>5. below = <<>> => Outermost(below) = "none" /\ fs[1] = fs[i] /\ fs[i] # "handler"
    BY <1>1, <1>2, <1>4 DEF Outermost
<1>6. below # <<>> => /\ Outermost(below) = Outermost(fs)
                      /\ below[Len(below)] \in CloseFrames <=> fs[i] = "handler"
    BY <1>1, <1>4
<1>7. ASSUME fs[i] = "pcall"
      PROVE  LET g == Append(below, "unwind") IN
             /\ g \in Seq(Frame) /\ Stacked(g) /\ Topped(g, "closing") /\ OuterKept(fs, g)
    <2> DEFINE g == Append(below, "unwind")
    <2>1. /\ "unwind" \in Frame /\ "unwind" \in CloseFrames
          /\ "unwind" \notin {"death", "coclose", "handler"}
        BY DEF Frame, CloseFrames
    <2>2. below = <<>> \/ below[Len(below)] \notin CloseFrames
        BY <1>6, <1>7
    <2>3. /\ g \in Seq(Frame) /\ Stacked(g) /\ Topped(g, "closing")
          /\ Outermost(g) = IF below = <<>> THEN "unwind" ELSE Outermost(below)
        BY <1>4, <2>1, <2>2, PushFrame
    <2> HIDE DEF g
    <2>4. OuterKept(fs, g)
        BY <1>1, <1>5, <1>6, <1>7, <2>3 DEF OuterKept
    <2> QED
        BY <2>3, <2>4 DEF g
<1>8. ASSUME fs[i] = "handler"
      PROVE  LET g == AfterHandlerError(below) IN
             /\ g \in Seq(Frame) /\ Stacked(g) /\ Topped(g, "closing") /\ OuterKept(fs, g)
    <2> DEFINE g == AfterHandlerError(below)
    <2>1. below # <<>> /\ below[Len(below)] \in CloseFrames
        BY <1>5, <1>6, <1>8
    <2>2. /\ g \in Seq(Frame) /\ Stacked(g) /\ Topped(g, "closing")
          /\ Outermost(g) = Outermost(below) \/ Outermost(below) = "scope"
          /\ Outermost(g) \in {Outermost(below), "rethrow"}
        BY <1>4, <2>1, HandlerErrorFrames
    <2> HIDE DEF g
    <2>3. OuterKept(fs, g)
        BY <1>6, <2>1, <2>2 DEF OuterKept
    <2> QED
        BY <2>2, <2>3 DEF g
<1>9. ASSUME fs[i] = "gc"
      PROVE  /\ below \in Seq(Frame) /\ Stacked(below) /\ Topped(below, "lua")
             /\ OuterKept(fs, below)
    <2>1. Topped(below, "lua")
        BY <1>6, <1>9 DEF Topped
    <2>2. OuterKept(fs, below)
        BY <1>1, <1>5, <1>6, <1>9 DEF OuterKept
    <2> QED
        BY <1>4, <2>1, <2>2
<1>10. fs[i] = "coclose" => i = 1 /\ Append(below, "coclose") = <<"coclose">>
    <2>1. fs[i] = "coclose" => below = <<>>
        BY <1>1, <1>3, <1>4
    <2>2. Append(<<>>, "coclose") = <<"coclose">>
        OBVIOUS
    <2> QED
        BY <1>3, <2>1, <2>2
<1> QED
    BY <1>7, <1>8, <1>9, <1>10 DEF n, below

LEMMA LocalMoves ==
    ASSUME TypeOK, FrameInv, NEW t \in Threads, Local(t)
    PROVE  \E g, p : StackMove(t, g, p)
<1> DEFINE fs == frames[t]
<1>1. /\ fs \in Seq(Frame) /\ Stacked(fs) /\ Topped(fs, at[t])
      /\ Len(fs) \in Nat /\ DOMAIN fs = 1 .. Len(fs) /\ (fs = <<>> <=> Len(fs) = 0)
      /\ fs # <<>> => Outermost(fs) = fs[1] /\ Last(fs) = fs[Len(fs)]
      /\ fs = <<>> => Outermost(fs) = "none"
    BY StackFacts DEF TypeOK, FrameInv
<1>2. /\ frames \in [Threads -> Seq(Frame)] /\ at \in [Threads -> Place]
      /\ [frames EXCEPT ![t] = fs] = frames /\ [at EXCEPT ![t] = at[t]] = at
    BY DEF TypeOK
<1>3. {"lua", "raise", "panic", "closing"} \subseteq Executing
    BY DEF Executing
<1> HIDE DEF fs
<1>4. OuterKept(fs, fs)
    BY DEF OuterKept
<1>5. at[t] # "closing" => fs = <<>> \/ fs[Len(fs)] \notin CloseFrames
    BY <1>1 DEF Topped
<1>6. at[t] = "closing" => fs # <<>> /\ fs[Len(fs)] \in CloseFrames
    BY <1>1 DEF Topped
<1>7. ASSUME NEW k \in CallFrames \ {"handler"}, Enter(t, k)
      PROVE  \E g, p : StackMove(t, g, p)
    <2> DEFINE g == Append(fs, k)
    <2>1. /\ at[t] = "lua" /\ frames' = [frames EXCEPT ![t] = g] /\ at' = at
          /\ MustPromote(t) => k \in {"noyield", "gc"}
        BY <1>7 DEF Enter, Crossable, fs
    <2>2. k \in Frame /\ k \notin CloseFrames /\ k \notin {"death", "coclose"}
        BY DEF Frame, CallFrames, CloseFrames
    <2>3. /\ g \in Seq(Frame) /\ Stacked(g) /\ Topped(g, "lua")
          /\ Outermost(g) = IF fs = <<>> THEN k ELSE Outermost(fs)
        <3>1. at[t] # "closing" /\ k # "handler"
            BY <2>1
        <3>2. ~(fs # <<>> /\ fs[Len(fs)] \in CloseFrames)
            BY <1>5, <3>1
        <3> QED
            BY <1>1, <2>2, <3>1, <3>2, PushFrame
    <2> HIDE DEF g
    <2>4. OuterKept(fs, g)
        BY <1>1, <2>2, <2>3 DEF OuterKept
    <2>5. at' = [at EXCEPT ![t] = "lua"]
        BY <1>2, <2>1
    <2>6. StackMove(t, g, "lua")
        BY <1>3, <2>1, <2>3, <2>4, <2>5 DEF StackMove, fs, Flat
    <2> QED
        BY <2>6
<1>8. ASSUME PromotionSwallowed(t) \/ RegisterTbc(t) \/ Raise(t) \/ GoPanic(t)
      PROVE  \E g, p : StackMove(t, g, p)
    <2>1. /\ at[t] = "lua" /\ frames' = frames
          /\ \E p \in {"lua", "raise", "panic"} : at' = [at EXCEPT ![t] = p]
        BY <1>2, <1>8 DEF PromotionSwallowed, RegisterTbc, Raise, GoPanic, goStack
    <2>2. PICK p \in {"lua", "raise", "panic"} : at' = [at EXCEPT ![t] = p]
        BY <2>1
    <2>3. Topped(fs, p)
        BY <1>1, <2>1, <2>2 DEF Topped
    <2>4. StackMove(t, fs, p)
        BY <1>1, <1>2, <1>3, <1>4, <2>1, <2>2, <2>3 DEF StackMove, fs, Flat
    <2> QED
        BY <2>4
<1>9. ASSUME ScopeExit(t)
      PROVE  \E g, p : StackMove(t, g, p)
    <2> DEFINE h == Append(fs, "scope")
    <2>1. at[t] = "lua" /\ OwnsTbc(t) /\ CallClose(t, h)
        BY <1>9 DEF ScopeExit, fs
    <2>2. "scope" \in Frame /\ "scope" \in CloseFrames /\ "scope" \notin {"death", "coclose", "handler"}
        BY DEF Frame, CloseFrames
    <2>3. fs = <<>> \/ fs[Len(fs)] \notin CloseFrames
        BY <1>5, <2>1
    <2>4. /\ h \in Seq(Frame) /\ Stacked(h)
          /\ Outermost(h) = IF fs = <<>> THEN "scope" ELSE Outermost(fs)
        BY <1>1, <2>2, <2>3, PushFrame
    <2>5. h # <<>> /\ h[Len(h)] = "scope"
        BY <1>1, <2>2, <2>4, AppendProperties, StackFacts
    <2> HIDE DEF h
    <2>6. OuterKept(fs, h)
        BY <1>1, <2>4 DEF OuterKept
    <2> QED
        BY <2>1, <2>2, <2>4, <2>5, <2>6, CallCloseMoves DEF fs
<1>10. ASSUME RunClose(t)
       PROVE  \E g, p : StackMove(t, g, p)
    <2>1. at[t] = "closing" /\ CallClose(t, fs)
        BY <1>10 DEF RunClose, fs
    <2> QED
        BY <1>1, <1>4, <1>6, <2>1, CallCloseMoves DEF fs
<1>11. ASSUME EndClose(t) \/ Return(t)
       PROVE  \E g, p : StackMove(t, g, p)
    <2> DEFINE n == Len(fs) - 1
               g == Front(fs)
    <2>1. /\ fs # <<>> /\ frames' = [frames EXCEPT ![t] = g]
          /\ EndClose(t) => Last(fs) \in {"scope", "rethrow", "unwind"}
          /\ Return(t) => at[t] = "lua"
        <3>1. EndClose(t) => at[t] = "closing"
            BY DEF EndClose
        <3> QED
            BY <1>6, <1>11, <3>1 DEF EndClose, Return, fs
    <2>2. /\ n \in Nat /\ n + 1 = Len(fs) /\ n < Len(fs) /\ n \in 0 .. Len(fs)
          /\ g = SubSeq(fs, 1, n)
        BY <1>1, <2>1, FrontCuts
    <2> HIDE DEF n
    <2>3. /\ g \in Seq(Frame) /\ Stacked(g) /\ Len(g) = n /\ (n = 0 <=> g = <<>>)
          /\ n > 0 => g[n] = fs[n] /\ Outermost(g) = Outermost(fs)
          /\ 0 < n /\ n < Len(fs) => (fs[n] \in CloseFrames <=> fs[n + 1] = "handler")
        BY <1>1, <2>2, CutFrames
    <2> HIDE DEF g
    <2>4. Last(fs) = fs[n + 1] /\ (n = 0 => Outermost(fs) = Last(fs) /\ Last(fs) # "handler")
        <3>1. fs[1] # "handler"
            BY <1>1, <2>1, 1 \in 1 .. Len(fs) DEF Stacked
        <3>2. Last(fs) = fs[n + 1] /\ Outermost(fs) = fs[1]
            BY <1>1, <2>1, <2>2
        <3> QED
            BY <3>1, <3>2
    <2>5. PICK p \in {"lua", "raise", "closing"} :
            /\ at' = [at EXCEPT ![t] = p]
            /\ p = "closing" <=> Last(fs) = "handler"
        BY <1>11, <2>1 DEF EndClose, Return, fs
    <2>6. Topped(g, p)
        <3>1. g # <<>> => (g[Len(g)] \in CloseFrames <=> Last(fs) = "handler")
            BY <2>2, <2>3, <2>4
        <3> QED
            BY <2>3, <2>4, <2>5, <3>1 DEF Topped
    <2>7. OuterKept(fs, g)
        <3>1. CASE n = 0
            <4>1. Last(fs) \notin {"death", "coclose"}
                BY <1>1, <1>5, <1>11, <2>1 DEF CloseFrames
            <4>2. Outermost(g) = "none"
                BY <2>3, <3>1 DEF Outermost
            <4> QED
                BY <2>4, <3>1, <4>1, <4>2 DEF OuterKept
        <3>2. CASE n # 0
            BY <2>2, <2>3, <3>2 DEF OuterKept
        <3> QED
            BY <3>1, <3>2
    <2>8. StackMove(t, g, p)
        BY <1>3, <2>1, <2>3, <2>5, <2>6, <2>7 DEF StackMove, fs
    <2> QED
        BY <2>8
<1>12. ASSUME Catch(t)
       PROVE  \E g, p : StackMove(t, g, p)
    <2>1. PICK i \in DOMAIN fs :
            LET below == SubSeq(fs, 1, i - 1) IN
            \/ /\ fs[i] = "pcall"
               /\ frames' = [frames EXCEPT ![t] = Append(below, "unwind")]
               /\ at' = [at EXCEPT ![t] = "closing"]
            \/ /\ fs[i] = "handler"
               /\ frames' = [frames EXCEPT ![t] = AfterHandlerError(below)]
               /\ at' = [at EXCEPT ![t] = "closing"]
            \/ /\ fs[i] = "gc"
               /\ frames' = [frames EXCEPT ![t] = below]
               /\ at' = [at EXCEPT ![t] = "lua"]
        BY <1>12 DEF Catch, Unwind, fs
    <2>2. fs # <<>>
        BY <1>1
    <2>3. LET below == SubSeq(fs, 1, i - 1) IN
           /\ fs[i] = "pcall" => LET g == Append(below, "unwind") IN
                /\ g \in Seq(Frame) /\ Stacked(g) /\ Topped(g, "closing") /\ OuterKept(fs, g)
           /\ fs[i] = "handler" => LET g == AfterHandlerError(below) IN
                /\ g \in Seq(Frame) /\ Stacked(g) /\ Topped(g, "closing") /\ OuterKept(fs, g)
           /\ fs[i] = "gc" =>
                /\ below \in Seq(Frame) /\ Stacked(below) /\ Topped(below, "lua")
                /\ OuterKept(fs, below)
        BY <1>1, CaughtFrames
    <2> DEFINE below == SubSeq(fs, 1, i - 1)
               g == IF fs[i] = "pcall" THEN Append(below, "unwind")
                    ELSE IF fs[i] = "handler" THEN AfterHandlerError(below) ELSE below
               p == IF fs[i] = "gc" THEN "lua" ELSE "closing"
    <2>4. /\ frames' = [frames EXCEPT ![t] = g] /\ at' = [at EXCEPT ![t] = p]
          /\ g \in Seq(Frame) /\ Stacked(g) /\ Topped(g, p) /\ OuterKept(fs, g)
        BY <2>1, <2>3
    <2>5. p \in Executing
        BY <1>3
    <2> HIDE DEF g, p
    <2>6. StackMove(t, g, p)
        BY <2>2, <2>4, <2>5 DEF StackMove, fs
    <2> QED
        BY <2>6
<1>13. ASSUME CatchPanic(t)
       PROVE  \E g, p : StackMove(t, g, p)
    <2>1. PICK i \in DOMAIN fs :
            LET below == SubSeq(fs, 1, i - 1) IN
            \/ /\ fs[i] = "pcall"
               /\ frames' = [frames EXCEPT ![t] = Append(below, "unwind")]
            \/ /\ fs[i] = "coclose"
               /\ frames' = [frames EXCEPT ![t] = Append(below, "coclose")]
        BY <1>13 DEF CatchPanic, Unwind, fs
    <2>2. fs # <<>> /\ at' = [at EXCEPT ![t] = "closing"]
        BY <1>1, <1>13 DEF CatchPanic
    <2>3. LET below == SubSeq(fs, 1, i - 1) IN
           /\ fs[i] = "pcall" => LET g == Append(below, "unwind") IN
                /\ g \in Seq(Frame) /\ Stacked(g) /\ Topped(g, "closing") /\ OuterKept(fs, g)
           /\ fs[i] = "coclose" => i = 1 /\ Append(below, "coclose") = <<"coclose">>
        BY <1>1, CaughtFrames
    <2> DEFINE below == SubSeq(fs, 1, i - 1)
               g == IF fs[i] = "pcall" THEN Append(below, "unwind") ELSE <<"coclose">>
    <2>4. frames' = [frames EXCEPT ![t] = g]
        BY <2>1, <2>3
    <2>5. g \in Seq(Frame) /\ Stacked(g) /\ Topped(g, "closing") /\ OuterKept(fs, g)
        <3>1. CASE fs[i] = "pcall"
            BY <2>3, <3>1
        <3>2. CASE fs[i] # "pcall"
            <4>1. Outermost(fs) = "coclose"
                BY <1>1, <2>1, <2>2, <2>3, <3>2
            <4>2. g = <<"coclose">>
                BY <3>2
            <4> HIDE DEF g
            <4> QED
                BY <4>1, <4>2, SmallStacks DEF OuterKept
        <3> QED
            BY <3>1, <3>2
    <2> HIDE DEF g
    <2>6. StackMove(t, g, "closing")
        BY <1>3, <2>2, <2>4, <2>5 DEF StackMove, fs
    <2> QED
        BY <2>6
<1> QED
    BY <1>7, <1>8, <1>9, <1>10, <1>11, <1>12, <1>13 DEF Local
-----------------------------------------------------------------------------
(* The hand-off: who has resumed whom, and what the status words say.      *)

\* A synchronous coroutine has no call frame, or one that forbids yields; one
\* that is neither synchronous nor promoted rests without a stack, or dies or
\* is closed.
SyncAgrees(t) ==
    /\ coSyncActive[t] => /\ t \in Coroutines /\ ~promoted[t] /\ at[t] \notin Resting
                          /\ Outermost(frames[t]) \in Flat
    /\ t \in Coroutines /\ ~promoted[t] /\ ~coSyncActive[t] =>
          IF at[t] \in Resting THEN frames[t] = <<>>
          ELSE Outermost(frames[t]) \in {"death", "coclose"}

SyncInv == \A t \in Threads : SyncAgrees(t)

\* It declares to-be-closed variables only under such a frame.
TbcAbove == \A t \in Coroutines : ~promoted[t] => \A i \in DOMAIN tbc[t] : tbc[t][i] >= 2

Waiting == Driving \cup {"sendResume"}

Callers == \A d \in Threads : callee[d] # NoThread <=> at[d] \in Waiting

OneCaller ==
    \A t, u \in Threads : callee[t] = callee[u] /\ callee[t] # NoThread => t = u

Acyclic == \A S \in SUBSET Threads : S # {} => \E t \in S : callee[t] \notin S

\* What the thread d, which waits, and the coroutine t it waits for are doing.
Agree(d, t) ==
    /\ status[t] \notin Idle
    /\ at[d] = "sendResume" <=> at[t] \in Resting
    /\ at[d] = "sendResume" => at[t] = "recv"
    /\ at[d] \in {"sendResume", "recvYield"} =>
          promoted[t] /\ status[d] = "normal" /\ Outermost(frames[t]) # "coclose"
    /\ at[d] = "inResume" =>
          /\ ~promoted[t]
          /\ IF coSyncActive[t] THEN status[d] = "normal"
             ELSE status[d] = "running" /\ Outermost(frames[t]) = "death"
    /\ at[d] = "inClose" => /\ ~coSyncActive[t] /\ status[d] = "running"
                            /\ Outermost(frames[t]) = "coclose"

CalleeAgrees == \A d, t \in Threads : callee[d] = t => t \in Coroutines /\ Agree(d, t)

\* A coroutine that is not at rest has a caller.
Called == \A t \in Coroutines : at[t] \notin Resting => \E d \in Threads : callee[d] = t

Active == Executing \cup Sending \cup {"crash"}

StatusWords ==
    /\ \A t \in Threads : at[t] \in Active => status[t] = "running"
    /\ \A t \in Threads : status[t] = "normal" => at[t] \in Waiting
    /\ \A t \in Threads : status[t] \in {"suspended", "none"} =>
            /\ at[t] = IF promoted[t] THEN "recv" ELSE "parked"
            /\ Outermost(frames[t]) # "coclose"
    /\ \A t \in Threads : status[t] = "none" => ~promoted[t]
    /\ status[Main] \notin Idle

ChainInv == Callers /\ OneCaller /\ Acyclic /\ CalleeAgrees /\ Called /\ StatusWords

LEMMA PlaceKinds ==
    /\ \A p \in Active : p \notin Resting /\ p \notin Waiting /\ p \notin {"recv", "parked", "gone"}
    /\ \A p \in Resting : p \notin Active /\ p \notin Waiting
    /\ \A p \in Waiting : p \notin Active /\ p \notin Resting
    /\ Executing \subseteq Active /\ Sending \subseteq Active
    /\ {"lua", "raise", "panic", "closing"} \subseteq Executing
    /\ {"recv", "parked", "gone"} \subseteq Resting
    /\ {"sendResume", "inResume", "recvYield", "inClose"} \subseteq Waiting
BY DEF Active, Executing, Sending, Resting, Waiting, Driving

\* A step of an active thread t that hands control to nobody: its frames become
\* g, it is at p.
LEMMA ChainWhileActive ==
    ASSUME TypeOK, ChainInv, NEW t \in Threads, at[t] \in Executing,
           NEW p \in Active \cup {"gone"}, p = "gone" => t = Main, NEW g,
           at' = [at EXCEPT ![t] = p], frames' = [frames EXCEPT ![t] = g],
           Outermost(g) = "coclose" <=> Outermost(frames[t]) = "coclose",
           t \in Coroutines /\ ~promoted[t] =>
               (Outermost(g) = "death" <=> Outermost(frames[t]) = "death"),
           UNCHANGED <<status, callee, mode>>
    PROVE  ChainInv'
<1>1. /\ at'[t] = p /\ frames'[t] = g
      /\ \A x \in Threads : x # t => at'[x] = at[x] /\ frames'[x] = frames[x]
      /\ coSyncActive' = coSyncActive /\ promoted' = promoted
      /\ status' = status /\ callee' = callee
    BY DEF TypeOK, mode
<1>2. /\ at[t] \in Active /\ status[t] = "running" /\ callee[t] = NoThread
      /\ at[t] \notin Resting /\ at[t] \notin Waiting /\ at[t] \notin {"recv", "parked"}
    <2>1. at[t] \in Active /\ at[t] \notin Resting /\ at[t] \notin Waiting /\ at[t] \notin {"recv", "parked"}
        BY PlaceKinds
    <2> QED
        BY <2>1 DEF ChainInv, StatusWords, Callers
<1>3. p \notin Waiting /\ (p \in Resting => t = Main) /\ p \notin {"recv", "parked"}
    BY PlaceKinds
<1>4. t = Main => t \notin Coroutines
    BY ThreadAssumption
<1>5. Callers'
    BY <1>1, <1>2, <1>3 DEF ChainInv, Callers
<1>6. OneCaller' /\ Acyclic'
    BY <1>1 DEF ChainInv, OneCaller, Acyclic
<1>7. CalleeAgrees'
    <2> SUFFICES ASSUME NEW d \in Threads, NEW x \in Threads, callee[d] = x
                 PROVE  x \in Coroutines /\ Agree(d, x)'
        BY <1>1 DEF CalleeAgrees
    <2>1. d # t /\ at'[d] = at[d]
        BY <1>1, <1>2, ThreadAssumption
    <2>2. x \in Coroutines /\ Agree(d, x)
        BY DEF ChainInv, CalleeAgrees
    <2>3. CASE x # t
        BY <1>1, <2>1, <2>2, <2>3 DEF Agree
    <2>4. CASE x = t
        BY <1>1, <1>2, <1>3, <1>4, <2>1, <2>2, <2>4 DEF Agree
    <2> QED
        BY <2>3, <2>4
<1>8. Called'
    BY <1>1, <1>2 DEF ChainInv, Called
<1>9. StatusWords'
    BY <1>1, <1>2, <1>3 DEF ChainInv, StatusWords
<1> QED
    BY <1>5, <1>6, <1>7, <1>8, <1>9 DEF ChainInv

\* The thread t calls the idle coroutine co: resume or close.
LEMMA ChainCalls ==
    ASSUME TypeOK, ChainInv, NEW t \in Threads, NEW co \in Coroutines, co \in Threads, co # t,
           at[t] = "lua", status[co] \in Idle, callee[co] = NoThread,
           NEW p \in Waiting, NEW q,
           q \in Executing \/ q = "recv",
           at'[t] = p, at'[co] = q, \A x \in Threads : x \notin {t, co} => at'[x] = at[x],
           status'[co] = "running", status'[t] \in {"running", "normal"},
           \A x \in Threads : x \notin {t, co} => status'[x] = status[x],
           callee'[t] = co, \A x \in Threads : x # t => callee'[x] = callee[x],
           \A x \in Threads : x # co => coSyncActive'[x] = coSyncActive[x] /\ frames'[x] = frames[x],
           promoted' = promoted, Agree(t, co)'
    PROVE  ChainInv'
<1>1. /\ at[t] \in Active /\ at[t] \notin Resting /\ at[t] \notin Waiting /\ callee[t] = NoThread
      /\ status[t] = "running" /\ status[t] \notin Idle /\ "running" \notin Idle /\ "normal" \notin Idle
    <2>1. at[t] \in Active /\ at[t] \notin Resting /\ at[t] \notin Waiting
        BY PlaceKinds
    <2> QED
        BY <2>1 DEF ChainInv, StatusWords, Callers, Idle
<1>2. p \notin Active /\ p \notin Resting /\ q \notin Waiting /\ co # NoThread /\ co # Main
    BY PlaceKinds, ThreadAssumption
<1>3. \A x \in Threads : callee[x] # co
    BY DEF ChainInv, CalleeAgrees, Agree
<1>4. Callers'
    BY <1>1, <1>2 DEF ChainInv, Callers
<1>5. OneCaller'
    BY <1>3 DEF ChainInv, OneCaller
<1>6. Acyclic'
    <2> SUFFICES ASSUME NEW S \in SUBSET Threads, S # {}
                 PROVE  \E x \in S : callee'[x] \notin S
        BY DEF Acyclic
    <2>1. PICK x \in S : callee[x] \notin S
        BY DEF ChainInv, Acyclic
    <2>2. CASE co \in S
        BY <2>2, ThreadAssumption
    <2>3. CASE co \notin S
        BY <2>1, <2>3
    <2> QED
        BY <2>2, <2>3
<1>7. CalleeAgrees'
    <2> SUFFICES ASSUME NEW d \in Threads, NEW x \in Threads, callee'[d] = x
                 PROVE  x \in Coroutines /\ Agree(d, x)'
        BY DEF CalleeAgrees
    <2>1. CASE d = t
        BY <2>1
    <2>2. CASE d # t
        <3>1. callee[d] = x /\ x # co /\ d # co
            BY <1>3, <2>2, ThreadAssumption
        <3>2. x \in Coroutines /\ Agree(d, x)
            BY <3>1 DEF ChainInv, CalleeAgrees
        <3>3. /\ at'[d] = at[d] /\ status'[d] = status[d] /\ coSyncActive'[x] = coSyncActive[x]
              /\ frames'[x] = frames[x] /\ promoted'[x] = promoted[x]
            BY <2>2, <3>1
        <3>4. CASE x # t
            BY <3>1, <3>2, <3>3, <3>4 DEF Agree
        <3>5. CASE x = t
            <4>1. at[x] \notin Resting /\ at'[x] \notin Resting /\ status'[x] \notin Idle
                BY <1>1, <1>2, <3>5
            <4> QED
                BY <3>2, <3>3, <4>1 DEF Agree
        <3> QED
            BY <3>4, <3>5
    <2> QED
        BY <2>1, <2>2
<1>8. Called'
    <2> SUFFICES ASSUME NEW x \in Coroutines, at'[x] \notin Resting
                 PROVE  \E d \in Threads : callee'[d] = x
        BY DEF Called
    <2>1. CASE x = co
        BY <2>1
    <2>2. CASE x # co
        <3>1. x \in Threads /\ at[x] \notin Resting
            BY <1>1, <2>2 DEF Threads
        <3>2. PICK d \in Threads : callee[d] = x
            BY <3>1 DEF ChainInv, Called
        <3> QED
            BY <1>1, <3>1, <3>2, ThreadAssumption
    <2> QED
        BY <2>1, <2>2
<1>9. StatusWords'
    <2>1. /\ \A x \in Threads : at'[x] \in Active => status'[x] = "running"
          /\ \A x \in Threads : status'[x] = "normal" => at'[x] \in Waiting
        BY <1>2 DEF ChainInv, StatusWords
    <2>2. status'[Main] \notin Idle
        BY <1>1, <1>2 DEF ChainInv, StatusWords, Threads
    <2>3. ASSUME NEW x \in Threads, status'[x] \in {"suspended", "none"}
          PROVE  /\ at'[x] = IF promoted'[x] THEN "recv" ELSE "parked"
                 /\ Outermost(frames'[x]) # "coclose"
                 /\ status'[x] = "none" => ~promoted'[x]
        <3>1. x \notin {t, co}
            BY <2>3
        <3> QED
            BY <2>3, <3>1 DEF ChainInv, StatusWords
    <2> QED
        BY <2>1, <2>2, <2>3 DEF StatusWords
<1> QED
    BY <1>4, <1>5, <1>6, <1>7, <1>8, <1>9 DEF ChainInv

\* The coroutine t comes to rest and its caller d goes on.
LEMMA ChainHandsBack ==
    ASSUME TypeOK, ChainInv, NEW t \in Coroutines, t \in Threads, NEW d \in Threads, callee[d] = t,
           at[t] \in Executing \cup Sending, at'[t] \in Resting, at'[d] \in Executing,
           \A x \in Threads : x \notin {t, d} => at'[x] = at[x], status'[d] = "running",
           \A x \in Threads : x \notin {t, d} => status'[x] = status[x],
           \/ status'[t] \in {"dead", "running"}
           \/ /\ status'[t] = "suspended" /\ at'[t] = IF promoted[t] THEN "recv" ELSE "parked"
              /\ Outermost(frames'[t]) # "coclose",
           callee' = [callee EXCEPT ![d] = NoThread],
           \A x \in Threads : x # t => coSyncActive'[x] = coSyncActive[x] /\ frames'[x] = frames[x],
           promoted' = promoted
    PROVE  ChainInv'
<1> DEFINE r == at'[t]
           p == at'[d]
           w == status'[t]
<1>1. /\ at[t] \in Active /\ at[t] \notin Resting /\ at[t] \notin Waiting /\ callee[t] = NoThread
      /\ status[t] = "running" /\ "running" \notin Idle /\ t # NoThread /\ t # Main
    <2>1. at[t] \in Active /\ at[t] \notin Resting /\ at[t] \notin Waiting
        BY PlaceKinds
    <2> QED
        BY <2>1, ThreadAssumption DEF ChainInv, StatusWords, Callers, Idle
<1>2. d # t /\ at[d] \in Waiting /\ at[d] \notin Resting
    BY <1>1, PlaceKinds DEF ChainInv, Callers
<1>3. p \notin Waiting /\ p \notin Resting /\ p \in Active /\ r \notin Waiting /\ r \notin Active
    BY PlaceKinds
<1>4. callee'[d] = NoThread /\ \A x \in Threads : x # d => callee'[x] = callee[x]
    BY DEF TypeOK
<1>5. Callers'
    BY <1>1, <1>2, <1>3, <1>4 DEF ChainInv, Callers
<1>6. OneCaller'
    BY <1>4 DEF ChainInv, OneCaller
<1>7. Acyclic'
    <2> SUFFICES ASSUME NEW S \in SUBSET Threads, S # {}
                 PROVE  \E x \in S : callee'[x] \notin S
        BY DEF Acyclic
    <2>1. PICK x \in S : callee[x] \notin S
        BY DEF ChainInv, Acyclic
    <2> QED
        BY <1>4, <2>1, ThreadAssumption
<1>8. CalleeAgrees'
    <2> SUFFICES ASSUME NEW e \in Threads, NEW x \in Threads, callee'[e] = x
                 PROVE  x \in Coroutines /\ Agree(e, x)'
        BY DEF CalleeAgrees
    <2>1. e # d /\ callee[e] = x
        BY <1>4, ThreadAssumption
    <2>2. e # t /\ x # t
        BY <1>1, <2>1, ThreadAssumption DEF ChainInv, OneCaller
    <2>3. x \in Coroutines /\ Agree(e, x)
        BY <2>1 DEF ChainInv, CalleeAgrees
    <2>4. /\ at'[e] = at[e] /\ status'[e] = status[e] /\ coSyncActive'[x] = coSyncActive[x]
          /\ frames'[x] = frames[x] /\ promoted'[x] = promoted[x]
        BY <2>1, <2>2
    <2>5. CASE x # d
        BY <2>2, <2>3, <2>4, <2>5 DEF Agree
    <2>6. CASE x = d
        <3>1. at[x] \notin Resting /\ at'[x] \notin Resting /\ status'[x] \notin Idle
            BY <1>1, <1>2, <1>3, <2>6
        <3> QED
            BY <2>3, <2>4, <3>1 DEF Agree
    <2> QED
        BY <2>5, <2>6
<1>9. Called'
    <2> SUFFICES ASSUME NEW x \in Coroutines, at'[x] \notin Resting
                 PROVE  \E e \in Threads : callee'[e] = x
        BY DEF Called
    <2>1. x # t /\ x \in Threads
        BY DEF Threads
    <2>2. at[x] \notin Resting
        BY <1>2, <2>1
    <2>3. PICK e \in Threads : callee[e] = x
        BY <2>2 DEF ChainInv, Called
    <2> QED
        BY <1>4, <2>1, <2>3
<1>10. StatusWords'
    <2>1. /\ \A x \in Threads : at'[x] \in Active => status'[x] = "running"
          /\ \A x \in Threads : status'[x] = "normal" => at'[x] \in Waiting
        BY <1>3 DEF ChainInv, StatusWords
    <2>2. status'[Main] \notin Idle
        BY <1>1 DEF ChainInv, StatusWords, Threads
    <2>3. ASSUME NEW x \in Threads, status'[x] \in {"suspended", "none"}
          PROVE  /\ at'[x] = IF promoted'[x] THEN "recv" ELSE "parked"
                 /\ Outermost(frames'[x]) # "coclose"
                 /\ status'[x] = "none" => ~promoted'[x]
        <3>1. x # d
            BY <2>3
        <3>2. CASE x = t
            BY <2>3, <3>2
        <3>3. CASE x # t
            BY <2>3, <3>1, <3>3 DEF ChainInv, StatusWords
        <3> QED
            BY <3>2, <3>3
    <2> QED
        BY <2>1, <2>2, <2>3 DEF StatusWords
<1> QED
    BY <1>5, <1>6, <1>7, <1>8, <1>9, <1>10 DEF ChainInv

\* The parts that concern one thread alone, in a step that changes the frames
\* or the mode of t and the place of t and perhaps of d.
ShapeInv == FrameInv /\ SyncInv

LEMMA ShapeStep ==
    ASSUME TypeOK, ShapeInv, NEW t \in Threads, NEW d \in Threads,
           Stacked(frames'[t]), Topped(frames'[t], at'[t]), SyncAgrees(t)',
           \A x \in Threads : x # t => /\ frames'[x] = frames[x] /\ promoted'[x] = promoted[x]
                                       /\ coSyncActive'[x] = coSyncActive[x],
           \A x \in Threads : x \notin {t, d} => at'[x] = at[x],
           d # t => /\ at[d] \in Active \cup Waiting /\ at'[d] \in Active \cup Waiting
                    /\ at[d] # "closing" /\ at'[d] # "closing"
    PROVE  ShapeInv'
<1>1. ASSUME NEW x \in Threads, x # t
      PROVE  Stacked(frames'[x]) /\ Topped(frames'[x], at'[x]) /\ SyncAgrees(x)'
    <2>1. Stacked(frames[x]) /\ Topped(frames[x], at[x]) /\ SyncAgrees(x)
        BY DEF ShapeInv, FrameInv, SyncInv
    <2>2. at'[x] = "closing" <=> at[x] = "closing"
        BY <1>1
    <2>3. at'[x] \in Resting <=> at[x] \in Resting
        BY <1>1, PlaceKinds
    <2>4. Topped(frames'[x], at'[x])
        BY <1>1, <2>1, <2>2 DEF Topped
    <2>5. SyncAgrees(x)'
        BY <1>1, <2>1, <2>3 DEF SyncAgrees
    <2> QED
        BY <1>1, <2>1, <2>4, <2>5
<1> QED
    BY <1>1 DEF ShapeInv, FrameInv, SyncInv

\* Under a runCloses that ends a coroutine there is a handler, which catches.
LEMMA DyingIsCaught ==
    ASSUME TypeOK, FrameInv, NEW t \in Threads, at[t] # "closing",
           Outermost(frames[t]) \in {"death", "coclose"}
    PROVE  ~Without(frames[t], Catchers)
<1> DEFINE fs == frames[t]
<1>1. fs \in Seq(Frame) /\ Stacked(fs) /\ (fs = <<>> \/ fs[Len(fs)] \notin CloseFrames)
    BY DEF TypeOK, FrameInv, Topped
<1>2. fs # <<>> /\ fs[1] \in CloseFrames /\ Len(fs) \in Nat /\ Len(fs) # 0 /\ DOMAIN fs = 1 .. Len(fs)
    <2>1. Len(fs) \in Nat /\ DOMAIN fs = 1 .. Len(fs) /\ (fs = <<>> <=> Len(fs) = 0)
        BY <1>1, StackFacts
    <2> QED
        BY <2>1 DEF Outermost, CloseFrames
<1> HIDE DEF fs
<1>3. 2 \in DOMAIN fs
    BY <1>1, <1>2
<1>4. fs[2] = "handler"
    <2>1. fs[2] = "handler" <=> 2 > 1 /\ fs[2 - 1] \in CloseFrames
        BY <1>1, <1>3, Zenon DEF Stacked
    <2>2. 2 > 1 /\ 2 - 1 = 1
        OBVIOUS
    <2> QED
        BY <1>2, <2>1, <2>2
<1> QED
    BY <1>3, <1>4 DEF Without, Catchers, fs

CoInv == ShapeInv /\ ChainInv

\* Steps of one thread.
LEMMA CoLocal ==
    ASSUME TypeOK, CoInv, TbcAbove, NEW t \in Threads, Local(t)
    PROVE  CoInv'
<1>1. FrameInv /\ SyncInv /\ ChainInv /\ ShapeInv
    BY DEF CoInv, ShapeInv
<1>2. PICK g, p : StackMove(t, g, p)
    BY <1>1, LocalMoves
<1>3. /\ frames' = [frames EXCEPT ![t] = g] /\ at' = [at EXCEPT ![t] = p]
      /\ p \in Executing /\ Stacked(g) /\ Topped(g, p) /\ OuterKept(frames[t], g)
      /\ frames[t] = <<>> /\ MustPromote(t) /\ ~OwnsTbc(t) => Outermost(g) \in Flat
    BY <1>2 DEF StackMove
<1>4. at[t] \in Executing /\ UNCHANGED <<status, callee, mode>>
    BY PlaceKinds DEF Local, Enter, PromotionSwallowed, RegisterTbc, Raise, GoPanic, ScopeExit,
        RunClose, CallClose, EndClose, Return, Catch, CatchPanic
<1>5. at[t] \notin Resting /\ p \notin Resting /\ p \in Active
    BY <1>3, <1>4, PlaceKinds
<1>6. /\ at'[t] = p /\ frames'[t] = g
      /\ \A x \in Threads : x # t => at'[x] = at[x] /\ frames'[x] = frames[x]
      /\ coSyncActive' = coSyncActive /\ promoted' = promoted
    BY <1>3, <1>4 DEF TypeOK, mode
<1>7. SyncAgrees(t)'
    <2>1. SyncAgrees(t)
        BY <1>1 DEF SyncInv
    <2>2. ASSUME coSyncActive[t]
          PROVE  Outermost(g) \in Flat
        <3>1. /\ t \in Coroutines /\ ~promoted[t] /\ Outermost(frames[t]) \in Flat
            BY <2>1, <2>2 DEF SyncAgrees
        <3>2. CASE frames[t] = <<>>
            <4>1. MustPromote(t)
                BY <2>2, <3>2 DEF MustPromote, NoYield, Without
            <4>2. ~OwnsTbc(t)
                <5>1. tbc[t] \in Seq(Nat) /\ Len(frames[t]) = 0
                    BY <3>2 DEF TypeOK
                <5>2. tbc[t] # <<>> => Len(tbc[t]) \in DOMAIN tbc[t]
                    BY <5>1, LenProperties, EmptySeq
                <5>3. tbc[t] # <<>> => Last(tbc[t]) >= 2
                    BY <3>1, <5>2 DEF TbcAbove, Last
                <5> QED
                    BY <5>1, <5>3 DEF OwnsTbc
            <4> QED
                BY <1>3, <3>2, <4>1, <4>2
        <3>3. CASE frames[t] # <<>>
            <4>1. Outermost(frames[t]) # "none"
                <5>1. frames[t] \in Seq(Frame) /\ frames[t][1] \in Frame
                    <6>1. frames[t] \in Seq(Frame)
                        BY DEF TypeOK
                    <6>2. 1 \in 1 .. Len(frames[t])
                        BY <3>3, <6>1, StackFacts
                    <6> QED
                        BY <6>1, <6>2, ElementOfSeq
                <5> QED
                    BY <3>3, <5>1 DEF Outermost, Frame, CallFrames, CloseFrames
            <4> QED
                BY <1>3, <3>1, <4>1 DEF OuterKept, Flat
        <3> QED
            BY <3>2, <3>3
    <2>3. Outermost(frames[t]) \in {"death", "coclose"} => Outermost(g) \in {"death", "coclose"}
        BY <1>3 DEF OuterKept
    <2> QED
        BY <1>5, <1>6, <2>1, <2>2, <2>3 DEF SyncAgrees
<1>8. ShapeInv'
    BY <1>1, <1>3, <1>6, <1>7, ShapeStep
<1>9. ChainInv'
    <2>1. /\ Outermost(g) = "coclose" <=> Outermost(frames[t]) = "coclose"
          /\ Outermost(g) = "death" <=> Outermost(frames[t]) = "death"
        BY <1>3 DEF OuterKept
    <2>2. p # "gone"
        BY <1>5, PlaceKinds
    <2> QED
        BY <1>1, <1>3, <1>4, <1>5, <2>1, <2>2, ChainWhileActive
<1> QED
    BY <1>8, <1>9 DEF CoInv

\* Steps of the goroutine of a promoted coroutine, and of the host.
LEMMA CoPromoted ==
    ASSUME TypeOK, CoInv, NEW t \in Threads,
           \/ /\ t \in Coroutines
              /\ \/ BodyReturnPromoted(t) \/ YieldPromoted(t) \/ DiePromoted(t)
                 \/ EndDeathPromoted(t) \/ PanicPromoted(t)
           \/ t = Main /\ (HostError \/ PanicHost)
    PROVE  CoInv'
<1>1. FrameInv /\ SyncInv /\ ChainInv /\ ShapeInv
    BY DEF CoInv, ShapeInv
<1>2. at[t] \in Executing /\ UNCHANGED <<status, callee, mode>>
    BY PlaceKinds DEF BodyReturnPromoted, YieldPromoted, MayYield, DiePromoted, Uncaught,
        EndDeathPromoted, PanicPromoted, PanicUncaught, HostError, PanicHost
<1>3. /\ Stacked(frames[t]) /\ Topped(frames[t], at[t]) /\ SyncAgrees(t)
      /\ frames[t] \in Seq(Frame) /\ [frames EXCEPT ![t] = frames[t]] = frames
    BY <1>1 DEF FrameInv, SyncInv, TypeOK
<1>4. \E g, p : /\ frames' = [frames EXCEPT ![t] = g] /\ at' = [at EXCEPT ![t] = p]
                /\ p \in Active \cup {"gone"} /\ (p = "gone" => t = Main)
                /\ Stacked(g) /\ Topped(g, p)
                /\ Outermost(g) = "coclose" <=> Outermost(frames[t]) = "coclose"
                /\ t # Main => ~coSyncActive[t] /\ (g # frames[t] => promoted[t])
    <2>1. CASE t \in Coroutines /\ BodyReturnPromoted(t)
        <3>1. /\ frames' = frames /\ at' = [at EXCEPT ![t] = "sendReturn"] /\ at[t] = "lua"
              /\ promoted[t]
            BY <2>1 DEF BodyReturnPromoted, goStack
        <3>2. Topped(frames[t], "sendReturn") /\ "sendReturn" \in Active /\ "sendReturn" # "gone"
            BY <1>3, <3>1 DEF Topped, Active, Sending
        <3>3. ~coSyncActive[t]
            BY <1>3, <3>1 DEF SyncAgrees
        <3> QED
            BY <1>3, <3>1, <3>2, <3>3
    <2>2. CASE t \in Coroutines /\ YieldPromoted(t)
        <3>1. /\ frames' = frames /\ at' = [at EXCEPT ![t] = "sendYield"] /\ at[t] = "lua"
              /\ ~coSyncActive[t]
            BY <2>2 DEF YieldPromoted, OnChannel, MayYield, goStack
        <3>2. Topped(frames[t], "sendYield") /\ "sendYield" \in Active /\ "sendYield" # "gone"
            BY <1>3, <3>1 DEF Topped, Active, Sending
        <3> QED
            BY <1>3, <3>1, <3>2
    <2>3. CASE t \in Coroutines /\ EndDeathPromoted(t)
        <3>1. /\ frames' = [frames EXCEPT ![t] = <<>>] /\ at' = [at EXCEPT ![t] = "sendError"]
              /\ promoted[t] /\ at[t] = "closing" /\ Last(frames[t]) = "death"
            BY <2>3 DEF EndDeathPromoted
        <3>2. Topped(<<>>, "sendError") /\ Stacked(<<>>) /\ Outermost(<<>>) # "coclose"
              /\ "sendError" \in Active /\ "sendError" # "gone"
            BY SmallStacks DEF Active, Sending
        <3>3. Outermost(frames[t]) # "coclose"
            <4>1. frames[t] # <<>>
                BY <1>3, <3>1 DEF Topped
            <4>2. /\ Len(frames[t]) \in DOMAIN frames[t] /\ frames[t][Len(frames[t])] = "death"
                  /\ Outermost(frames[t]) = frames[t][1]
                BY <1>3, <3>1, <4>1, StackFacts
            <4>3. Len(frames[t]) = 1
                BY <1>3, <4>2 DEF Stacked
            <4> QED
                BY <4>2, <4>3
        <3>4. ~coSyncActive[t]
            BY <1>3, <3>1 DEF SyncAgrees
        <3> QED
            BY <3>1, <3>2, <3>3, <3>4
    <2>4. CASE t \in Coroutines /\ (DiePromoted(t) \/ PanicPromoted(t))
        <3>1. /\ promoted[t] /\ at[t] # "closing"
              /\ Without(frames[t], Catchers) \/ Without(frames[t], PanicCatchers)
            BY <2>4 DEF DiePromoted, PanicPromoted, Uncaught, PanicUncaught
        <3>2. Outermost(frames[t]) # "coclose"
            <4>1. CASE Without(frames[t], Catchers)
                BY <1>1, <3>1, <4>1, DyingIsCaught
            <4>2. CASE Without(frames[t], PanicCatchers)
                <5>1. frames[t] # <<>> => 1 \in DOMAIN frames[t] /\ Outermost(frames[t]) = frames[t][1]
                    BY <1>3, StackFacts
                <5>2. frames[t] = <<>> => Outermost(frames[t]) = "none"
                    BY DEF Outermost
                <5> QED
                    BY <4>2, <5>1, <5>2 DEF Without, PanicCatchers
            <4> QED
                BY <3>1, <4>1, <4>2
        <3>3. ~coSyncActive[t]
            BY <1>3, <3>1 DEF SyncAgrees
        <3>4. /\ Stacked(<<"death">>) /\ Topped(<<"death">>, "closing")
              /\ Outermost(<<"death">>) # "coclose"
              /\ "closing" \in Active /\ "crash" \in Active /\ "closing" # "gone" /\ "crash" # "gone"
            BY SmallStacks DEF Active, Executing
        <3>5. CASE frames' = [frames EXCEPT ![t] = <<"death">>] /\ at' = [at EXCEPT ![t] = "closing"]
            BY <3>1, <3>2, <3>3, <3>4, <3>5
        <3>6. CASE frames' = frames /\ at' = [at EXCEPT ![t] = "crash"]
            <4>1. Topped(frames[t], "crash")
                BY <1>3, <3>1 DEF Topped
            <4> QED
                BY <1>3, <3>1, <3>2, <3>3, <3>4, <3>6, <4>1
        <3> QED
            BY <2>4, <3>5, <3>6 DEF DiePromoted, PanicPromoted, Unwind
    <2>5. CASE t = Main /\ (HostError \/ PanicHost)
        <3>1. /\ frames' = [frames EXCEPT ![t] = <<>>]
              /\ \E p \in {"lua", "gone"} : at' = [at EXCEPT ![t] = p]
              /\ at[t] # "closing"
              /\ Without(frames[t], Catchers) \/ Without(frames[t], PanicCatchers)
            BY <2>5 DEF HostError, PanicHost, Uncaught, PanicUncaught, Unwind
        <3>2. Outermost(frames[t]) # "coclose"
            <4>1. CASE Without(frames[t], Catchers)
                BY <1>1, <3>1, <4>1, DyingIsCaught
            <4>2. CASE Without(frames[t], PanicCatchers)
                <5>1. frames[t] # <<>> => 1 \in DOMAIN frames[t] /\ Outermost(frames[t]) = frames[t][1]
                    BY <1>3, StackFacts
                <5>2. frames[t] = <<>> => Outermost(frames[t]) = "none"
                    BY DEF Outermost
                <5> QED
                    BY <4>2, <5>1, <5>2 DEF Without, PanicCatchers
            <4> QED
                BY <3>1, <4>1, <4>2
        <3>3. PICK p \in {"lua", "gone"} : at' = [at EXCEPT ![t] = p]
            BY <3>1
        <3>4. Stacked(<<>>) /\ Topped(<<>>, p) /\ Outermost(<<>>) # "coclose" /\ p \in Active \cup {"gone"}
            BY SmallStacks, PlaceKinds
        <3> QED
            BY <2>5, <3>1, <3>2, <3>3, <3>4
    <2> QED
        BY <2>1, <2>2, <2>3, <2>4, <2>5
<1>5. PICK g, p : /\ frames' = [frames EXCEPT ![t] = g] /\ at' = [at EXCEPT ![t] = p]
                  /\ p \in Active \cup {"gone"} /\ (p = "gone" => t = Main)
                  /\ Stacked(g) /\ Topped(g, p)
                  /\ Outermost(g) = "coclose" <=> Outermost(frames[t]) = "coclose"
                  /\ t # Main => ~coSyncActive[t] /\ (g # frames[t] => promoted[t])
    BY <1>4
<1>6. /\ at'[t] = p /\ frames'[t] = g
      /\ \A x \in Threads : x # t => at'[x] = at[x] /\ frames'[x] = frames[x]
      /\ coSyncActive' = coSyncActive /\ promoted' = promoted
    BY <1>2, <1>5 DEF TypeOK, mode
<1>7. SyncAgrees(t)'
    <2>1. CASE t = Main
        BY <1>3, <1>6, <2>1, ThreadAssumption DEF SyncAgrees
    <2>2. CASE t # Main
        <3>1. at[t] \notin Resting /\ p \notin Resting
            BY <1>2, <1>5, <2>2, PlaceKinds
        <3> QED
            BY <1>3, <1>5, <1>6, <2>2, <3>1 DEF SyncAgrees
    <2> QED
        BY <2>1, <2>2
<1>8. ShapeInv'
    BY <1>1, <1>5, <1>6, <1>7, ShapeStep
<1>9. ChainInv'
    <2>1. t \in Coroutines /\ ~promoted[t] =>
            (Outermost(g) = "death" <=> Outermost(frames[t]) = "death")
        BY <1>5, ThreadAssumption
    <2> QED
        BY <1>1, <1>2, <1>5, <2>1, ChainWhileActive
<1> QED
    BY <1>8, <1>9 DEF CoInv

\* Resume and close.
LEMMA CoCalls ==
    ASSUME TypeOK, HandInv, CoInv, NEW t \in Threads, NEW co \in Coroutines,
           ResumeSync(t, co) \/ ResumePromoted(t, co) \/ Close(t, co)
    PROVE  CoInv'
<1>1. FrameInv /\ SyncInv /\ ChainInv /\ ShapeInv /\ IdleRests
    BY DEF CoInv, ShapeInv, HandInv
<1>2. co \in Threads /\ at[t] = "lua" /\ status[co] \in Idle
    BY DEF ResumeSync, ResumePromoted, StartResume, Resumable, Close, Idle, Threads
<1>3. /\ at[co] \in Resting /\ at[co] \notin Active /\ at[co] \notin Waiting /\ callee[co] = NoThread
      /\ at[t] \in Active /\ at[t] \notin Resting /\ co # t /\ at[co] # "closing"
    <2>1. at[co] \in Resting
        BY <1>1, <1>2 DEF IdleRests
    <2>2. /\ at[co] \notin Active /\ at[co] \notin Waiting /\ at[t] \in Active /\ at[t] \notin Resting
          /\ "closing" \in Active
        BY <1>2, <2>1, PlaceKinds
    <2> QED
        BY <1>1, <1>2, <2>1, <2>2 DEF ChainInv, Callers
<1>4. /\ Stacked(frames[co]) /\ Topped(frames[co], at[co]) /\ ~coSyncActive[co]
      /\ ~promoted[co] => frames[co] = <<>>
      /\ status[t] = "running"
    <2>1. Stacked(frames[co]) /\ Topped(frames[co], at[co]) /\ SyncAgrees(co)
        BY <1>1, <1>2 DEF FrameInv, SyncInv
    <2>2. ~coSyncActive[co] /\ (~promoted[co] => frames[co] = <<>>)
        BY <1>3, <2>1 DEF SyncAgrees
    <2> QED
        BY <1>1, <1>3, <2>1, <2>2 DEF ChainInv, StatusWords
<1>5. /\ {"inResume", "sendResume", "inClose"} \subseteq Waiting
      /\ {"lua", "closing"} \subseteq Executing /\ {"lua", "closing"} \subseteq Active
      /\ "lua" \notin Resting /\ "closing" \notin Resting /\ "recv" \in Resting
      /\ "running" \notin Idle
    BY PlaceKinds DEF Idle
<1>6. CASE ResumeSync(t, co)
    <2>1. /\ at'[t] = "inResume" /\ at'[co] = "lua"
          /\ \A x \in Threads : x \notin {t, co} => at'[x] = at[x] /\ status'[x] = status[x]
          /\ status'[co] = "running" /\ status'[t] = "normal"
          /\ callee'[t] = co /\ \A x \in Threads : x # t => callee'[x] = callee[x]
          /\ coSyncActive'[co] = TRUE
          /\ \A x \in Threads : x # co => coSyncActive'[x] = coSyncActive[x]
          /\ promoted' = promoted /\ frames' = frames /\ ~promoted[co]
        BY <1>2, <1>3, <1>6 DEF ResumeSync, StartResume, Handover, TypeOK
    <2>2. frames[co] = <<>>
        BY <1>4, <2>1
    <2>3. SyncAgrees(co)'
        BY <1>5, <2>1, <2>2, SmallStacks DEF SyncAgrees, Flat
    <2>4. Topped(frames'[co], at'[co]) /\ Stacked(frames'[co])
        BY <1>4, <2>1, <2>2, SmallStacks
    <2>5. ShapeInv'
        BY <1>1, <1>2, <1>3, <1>5, <2>1, <2>3, <2>4, ShapeStep
    <2>6. Agree(t, co)'
        BY <1>5, <2>1 DEF Agree
    <2>7. ChainInv'
        BY <1>1, <1>2, <1>3, <1>5, <2>1, <2>6, ChainCalls
    <2> QED
        BY <2>5, <2>7 DEF CoInv
<1>7. CASE ResumePromoted(t, co)
    <2>1. /\ at'[t] = "sendResume" /\ at'[co] = at[co]
          /\ \A x \in Threads : x \notin {t, co} => at'[x] = at[x] /\ status'[x] = status[x]
          /\ status'[co] = "running" /\ status'[t] = "normal"
          /\ callee'[t] = co /\ \A x \in Threads : x # t => callee'[x] = callee[x]
          /\ coSyncActive' = coSyncActive
          /\ promoted' = promoted /\ frames' = frames /\ promoted[co] /\ status[co] = "suspended"
        BY <1>2, <1>3, <1>7 DEF ResumePromoted, StartResume, Resumable, Handover, TypeOK, mode
    <2>2. at[co] = "recv" /\ Outermost(frames[co]) # "coclose"
        BY <1>1, <1>2, <2>1 DEF ChainInv, StatusWords
    <2>3. SyncAgrees(co)'
        BY <1>4, <2>1 DEF SyncAgrees
    <2>4. ShapeInv'
        BY <1>1, <1>2, <1>3, <1>4, <1>5, <2>1, <2>3, ShapeStep
    <2>5. Agree(t, co)'
        BY <1>5, <2>1, <2>2 DEF Agree
    <2>6. ChainInv'
        BY <1>1, <1>2, <1>3, <1>5, <2>1, <2>2, <2>5, ChainCalls
    <2> QED
        BY <2>4, <2>6 DEF CoInv
<1>8. CASE Close(t, co) /\ tbc[co] # <<>>
    <2>1. /\ at'[t] = "inClose" /\ at'[co] = "closing"
          /\ \A x \in Threads : x \notin {t, co} => at'[x] = at[x] /\ status'[x] = status[x]
          /\ status'[co] = "running" /\ status'[t] = status[t]
          /\ callee'[t] = co /\ \A x \in Threads : x # t => callee'[x] = callee[x]
          /\ coSyncActive' = coSyncActive /\ promoted' = promoted
          /\ frames'[co] = <<"coclose">> /\ \A x \in Threads : x # co => frames'[x] = frames[x]
        BY <1>2, <1>3, <1>8 DEF Close, TypeOK, mode
    <2>2. /\ Stacked(frames'[co]) /\ Topped(frames'[co], at'[co])
          /\ Outermost(frames'[co]) = "coclose"
        BY <2>1, SmallStacks
    <2>3. SyncAgrees(co)'
        BY <1>4, <1>5, <2>1, <2>2 DEF SyncAgrees
    <2>4. ShapeInv'
        BY <1>1, <1>2, <1>3, <1>5, <2>1, <2>2, <2>3, ShapeStep
    <2>5. Agree(t, co)'
        BY <1>4, <1>5, <2>1, <2>2 DEF Agree
    <2>6. ChainInv'
        BY <1>1, <1>2, <1>3, <1>4, <1>5, <2>1, <2>5, ChainCalls
    <2> QED
        BY <2>4, <2>6 DEF CoInv
<1>9. CASE Close(t, co) /\ tbc[co] = <<>>
    <2>1. /\ at' = at /\ callee' = callee /\ coSyncActive' = coSyncActive /\ promoted' = promoted
          /\ status'[co] = "dead" /\ \A x \in Threads : x # co => status'[x] = status[x]
          /\ frames'[co] = <<>> /\ \A x \in Threads : x # co => frames'[x] = frames[x]
        BY <1>2, <1>3, <1>9 DEF Close, TypeOK, mode
    <2>2. Stacked(frames'[co]) /\ Topped(frames'[co], at'[co])
        BY <1>3, <2>1, SmallStacks
    <2>3. SyncAgrees(co)'
        BY <1>3, <1>4, <2>1, <2>2 DEF SyncAgrees
    <2>4. ShapeInv'
        BY <1>1, <1>2, <2>1, <2>2, <2>3, ShapeStep
    <2>5. \A x \in Threads : callee[x] # co
        BY <1>1, <1>2 DEF ChainInv, CalleeAgrees, Agree
    <2>6. Callers' /\ OneCaller' /\ Acyclic' /\ Called'
        BY <1>1, <2>1 DEF ChainInv, Callers, OneCaller, Acyclic, Called
    <2>7. CalleeAgrees'
        <3> SUFFICES ASSUME NEW d \in Threads, NEW x \in Threads, callee[d] = x
                     PROVE  x \in Coroutines /\ Agree(d, x)'
            BY <2>1 DEF CalleeAgrees
        <3>1. x # co /\ x \in Coroutines /\ Agree(d, x)
            BY <1>1, <2>5 DEF ChainInv, CalleeAgrees
        <3>2. d # co
            BY <1>3, ThreadAssumption
        <3> QED
            BY <2>1, <3>1, <3>2 DEF Agree
    <2>8. StatusWords'
        <3>1. co # Main /\ "dead" \notin {"normal", "suspended", "none"}
            BY ThreadAssumption
        <3> QED
            BY <1>1, <1>3, <2>1, <3>1 DEF ChainInv, StatusWords, Threads
    <2> QED
        BY <2>4, <2>6, <2>7, <2>8 DEF CoInv, ChainInv
<1> QED
    BY <1>6, <1>7, <1>8, <1>9

\* The innermost frame of a thread in runCloses that ends a coroutine is its
\* only one.
LEMMA EndingFrame ==
    ASSUME TypeOK, FrameInv, NEW t \in Threads, at[t] = "closing",
           Last(frames[t]) \in {"death", "coclose"}
    PROVE  Outermost(frames[t]) = Last(frames[t]) /\ Len(frames[t]) = 1
<1>1. frames[t] \in Seq(Frame) /\ Stacked(frames[t]) /\ frames[t] # <<>>
    BY DEF TypeOK, FrameInv, Topped
<1>2. /\ Len(frames[t]) \in DOMAIN frames[t] /\ frames[t][Len(frames[t])] = Last(frames[t])
      /\ Outermost(frames[t]) = frames[t][1]
    BY <1>1, StackFacts
<1>3. Len(frames[t]) = 1
    BY <1>1, <1>2 DEF Stacked
<1> QED
    BY <1>2, <1>3

\* A coroutine comes to rest and its caller goes on.
LEMMA CoHandsBack ==
    ASSUME TypeOK, CoInv, NEW t \in Coroutines, NEW d \in Threads,
           \/ BodyReturnSync(t, d) \/ YieldSync(t, d) \/ EndDeathSync(t, d)
           \/ EndCoClose(t, d) \/ PanicSync(t, d) \/ RecvCoMsg(d, t)
    PROVE  CoInv'
<1>1. FrameInv /\ SyncInv /\ ChainInv /\ ShapeInv
    BY DEF CoInv, ShapeInv
<1>2. /\ t \in Threads /\ callee[d] = t /\ at[t] \in Executing \cup Sending
      /\ callee' = [callee EXCEPT ![d] = NoThread] /\ promoted' = promoted
    BY PlaceKinds DEF BodyReturnSync, YieldSync, MayYield, EndDeathSync, EndCoClose,
        PanicSync, PanicUncaught, RecvCoMsg, Threads, mode
<1>3. /\ at[t] \in Active /\ at[t] \notin Resting /\ at[t] \notin Waiting /\ status[t] = "running"
      /\ at[d] \in Waiting /\ d # t /\ Agree(d, t)
    <2>1. at[t] \in Active /\ at[t] \notin Resting /\ at[t] \notin Waiting
        BY <1>2, PlaceKinds
    <2> QED
        BY <1>1, <1>2, <2>1, ThreadAssumption DEF ChainInv, StatusWords, Callers, CalleeAgrees
<1>4. Stacked(frames[t]) /\ Topped(frames[t], at[t]) /\ SyncAgrees(t)
    BY <1>1, <1>2 DEF FrameInv, SyncInv
<1>5. \E r, p, w :
        /\ r \in Resting /\ p \in Executing /\ p # "closing"
        /\ at'[t] = r /\ at'[d] = p /\ \A x \in Threads : x \notin {t, d} => at'[x] = at[x]
        /\ status'[t] = w /\ status'[d] = "running"
        /\ \A x \in Threads : x \notin {t, d} => status'[x] = status[x]
        /\ \/ w \in {"dead", "running"}
           \/ /\ w = "suspended" /\ r = IF promoted[t] THEN "recv" ELSE "parked"
              /\ Outermost(frames'[t]) # "coclose"
        /\ \A x \in Threads : x # t => /\ coSyncActive'[x] = coSyncActive[x]
                                       /\ frames'[x] = frames[x]
        /\ Stacked(frames'[t]) /\ Topped(frames'[t], r) /\ ~coSyncActive'[t]
        /\ ~promoted[t] => frames'[t] = <<>>
    <2>1. /\ Stacked(<<>>) /\ Topped(<<>>, "parked") /\ Outermost(<<>>) # "coclose"
          /\ "parked" \in Resting /\ "lua" \in Executing /\ "panic" \in Executing
        BY SmallStacks, PlaceKinds
    <2>2. CASE BodyReturnSync(t, d) \/ YieldSync(t, d) \/ PanicSync(t, d)
        <3>1. ~promoted[t]
            BY <1>4, <2>2 DEF SyncAgrees, BodyReturnSync, YieldSync, PanicSync
        <3>2. /\ at'[t] = "parked" /\ at'[d] \in {"lua", "panic"}
              /\ \A x \in Threads : x \notin {t, d} => at'[x] = at[x]
            BY <1>2, <1>3, <2>2 DEF BodyReturnSync, YieldSync, PanicSync, TypeOK
        <3>3. /\ status'[t] \in {"dead", "suspended", "running"} /\ status'[d] = "running"
              /\ \A x \in Threads : x \notin {t, d} => status'[x] = status[x]
            BY <1>2, <1>3, <2>2 DEF BodyReturnSync, YieldSync, PanicSync, TypeOK
        <3>4. /\ ~coSyncActive'[t]
              /\ \A x \in Threads : x # t => coSyncActive'[x] = coSyncActive[x]
            BY <1>2, <2>2 DEF BodyReturnSync, YieldSync, PanicSync, TypeOK
        <3>5. frames'[t] = <<>> /\ \A x \in Threads : x # t => frames'[x] = frames[x]
            BY <1>2, <2>2 DEF BodyReturnSync, YieldSync, PanicSync, Unwind, TypeOK, goStack
        <3> QED
            BY <2>1, <3>1, <3>2, <3>3, <3>4, <3>5
    <2>3. CASE EndDeathSync(t, d) \/ EndCoClose(t, d)
        <3>1. at[t] = "closing" /\ Last(frames[t]) \in {"death", "coclose"}
            BY <2>3 DEF EndDeathSync, EndCoClose
        <3>2. Outermost(frames[t]) = Last(frames[t])
            BY <1>1, <1>2, <3>1, EndingFrame
        <3>3. ~coSyncActive[t]
            BY <1>4, <3>1, <3>2 DEF SyncAgrees, Flat
        <3>4. status[d] = "running"
            <4>1. at[d] \in {"sendResume", "recvYield", "inResume", "inClose"}
                BY <1>3 DEF Waiting, Driving
            <4>2. CASE EndDeathSync(t, d)
                <5>1. ~promoted[t]
                    BY <4>2 DEF EndDeathSync
                <5> QED
                    BY <1>3, <3>3, <4>1, <5>1 DEF Agree
            <4>3. CASE EndCoClose(t, d)
                <5>1. Outermost(frames[t]) = "coclose"
                    BY <3>2, <4>3 DEF EndCoClose
                <5> QED
                    BY <1>3, <3>3, <4>1, <5>1 DEF Agree
            <4> QED
                BY <2>3, <4>2, <4>3
        <3>5. /\ at'[t] = "parked" /\ at'[d] = "lua"
              /\ \A x \in Threads : x \notin {t, d} => at'[x] = at[x]
            BY <1>2, <1>3, <2>3 DEF EndDeathSync, EndCoClose, TypeOK
        <3>6. /\ status'[t] = "dead" /\ status'[d] = "running"
              /\ \A x \in Threads : x \notin {t, d} => status'[x] = status[x]
            BY <1>2, <1>3, <2>3, <3>4 DEF EndDeathSync, EndCoClose, TypeOK
        <3>7. /\ frames'[t] = <<>> /\ \A x \in Threads : x # t => frames'[x] = frames[x]
              /\ coSyncActive' = coSyncActive
            BY <1>2, <2>3 DEF EndDeathSync, EndCoClose, TypeOK, mode
        <3> QED
            BY <2>1, <3>3, <3>5, <3>6, <3>7
    <2>4. CASE RecvCoMsg(d, t)
        <3>1. at[d] = "recvYield" /\ at[t] \in Sending
            BY <2>4 DEF RecvCoMsg
        <3>2. promoted[t] /\ Outermost(frames[t]) # "coclose"
            BY <1>3, <3>1 DEF Agree
        <3>3. ~coSyncActive[t]
            BY <1>4, <3>2 DEF SyncAgrees
        <3>4. /\ at'[t] = AfterMessage(t) /\ at'[d] = "lua"
              /\ \A x \in Threads : x \notin {t, d} => at'[x] = at[x]
            BY <1>2, <1>3, <2>4 DEF RecvCoMsg, TypeOK
        <3>5. /\ status'[t] = MessageStatus(t) /\ status'[d] = "running"
              /\ \A x \in Threads : x \notin {t, d} => status'[x] = status[x]
            BY <1>2, <1>3, <2>4 DEF RecvCoMsg, TypeOK
        <3>6. frames' = frames /\ coSyncActive' = coSyncActive
            BY <2>4 DEF RecvCoMsg, goStack, mode
        <3>7. /\ AfterMessage(t) \in Resting /\ AfterMessage(t) # "closing"
              /\ \/ MessageStatus(t) = "dead"
                 \/ MessageStatus(t) = "suspended" /\ AfterMessage(t) = "recv"
            BY PlaceKinds DEF AfterMessage, MessageStatus
        <3>8. Topped(frames[t], AfterMessage(t))
            <4>1. at[t] # "closing"
                BY <3>1 DEF Sending
            <4> QED
                BY <1>4, <3>7, <4>1 DEF Topped
        <3> QED
            BY <1>4, <2>1, <3>2, <3>3, <3>4, <3>5, <3>6, <3>7, <3>8
    <2> QED
        BY <2>2, <2>3, <2>4
<1>6. PICK r, p, w :
        /\ r \in Resting /\ p \in Executing /\ p # "closing"
        /\ at'[t] = r /\ at'[d] = p /\ \A x \in Threads : x \notin {t, d} => at'[x] = at[x]
        /\ status'[t] = w /\ status'[d] = "running"
        /\ \A x \in Threads : x \notin {t, d} => status'[x] = status[x]
        /\ \/ w \in {"dead", "running"}
           \/ /\ w = "suspended" /\ r = IF promoted[t] THEN "recv" ELSE "parked"
              /\ Outermost(frames'[t]) # "coclose"
        /\ \A x \in Threads : x # t => /\ coSyncActive'[x] = coSyncActive[x]
                                       /\ frames'[x] = frames[x]
        /\ Stacked(frames'[t]) /\ Topped(frames'[t], r) /\ ~coSyncActive'[t]
        /\ ~promoted[t] => frames'[t] = <<>>
    BY <1>5
<1>7. ChainInv'
    <2>1. /\ at'[t] \in Resting /\ at'[d] \in Executing /\ status'[d] = "running"
          /\ \A x \in Threads : x \notin {t, d} => at'[x] = at[x]
          /\ \A x \in Threads : x \notin {t, d} => status'[x] = status[x]
          /\ \A x \in Threads : x # t => coSyncActive'[x] = coSyncActive[x] /\ frames'[x] = frames[x]
        BY <1>6
    <2>2. \/ status'[t] \in {"dead", "running"}
          \/ /\ status'[t] = "suspended" /\ at'[t] = IF promoted[t] THEN "recv" ELSE "parked"
             /\ Outermost(frames'[t]) # "coclose"
        BY <1>6
    <2> QED
        BY <1>1, <1>2, <2>1, <2>2, ChainHandsBack
<1>8. SyncAgrees(t)'
    BY <1>2, <1>6 DEF SyncAgrees
<1>9. /\ at[d] \in Active \cup Waiting /\ at'[d] \in Active \cup Waiting
      /\ at[d] # "closing" /\ at'[d] # "closing"
    BY <1>3, <1>6, PlaceKinds
<1>10. ShapeInv'
    BY <1>1, <1>2, <1>6, <1>8, <1>9, ShapeStep
<1> QED
    BY <1>7, <1>10 DEF CoInv

\* A coroutine is made.
LEMMA CoCreate ==
    ASSUME TypeOK, CoInv, NEW t \in Threads, NEW co \in Coroutines, Create(t, co)
    PROVE  CoInv'
<1>1. ShapeInv /\ FrameInv /\ SyncInv /\ ChainInv /\ co \in Threads /\ co # Main
    BY ThreadAssumption DEF CoInv, ShapeInv, Threads
<1>2. /\ status[co] = "none" /\ status'[co] = "suspended"
      /\ \A x \in Threads : x # co => status'[x] = status[x]
      /\ UNCHANGED <<at, callee, frames, coSyncActive, promoted>>
    BY <1>1 DEF Create, TypeOK, goStack, mode
<1>3. ShapeInv'
    BY <1>1, <1>2 DEF ShapeInv, FrameInv, SyncInv, SyncAgrees
<1>4. at[co] = "parked" /\ ~promoted[co] /\ Outermost(frames[co]) # "coclose"
    BY <1>1, <1>2 DEF ChainInv, StatusWords
<1>5. at[co] \notin Active /\ at[co] \notin Waiting
    BY <1>4, PlaceKinds
<1>6. Callers' /\ OneCaller' /\ Acyclic' /\ Called'
    BY <1>1, <1>2 DEF ChainInv, Callers, OneCaller, Acyclic, Called
<1>7. CalleeAgrees'
    <2> SUFFICES ASSUME NEW d \in Threads, NEW x \in Threads, callee[d] = x
                 PROVE  x \in Coroutines /\ Agree(d, x)'
        BY <1>2 DEF CalleeAgrees
    <2>1. x \in Coroutines /\ Agree(d, x)
        BY <1>1 DEF ChainInv, CalleeAgrees
    <2>2. x # co
        BY <1>2, <2>1 DEF Agree, Idle
    <2>3. d # co
        BY <1>1, <1>5, ThreadAssumption DEF ChainInv, Callers
    <2> QED
        BY <1>2, <2>1, <2>2, <2>3 DEF Agree
<1>8. StatusWords'
    BY <1>1, <1>2, <1>4, <1>5 DEF ChainInv, StatusWords, Threads
<1> QED
    BY <1>3, <1>6, <1>7, <1>8 DEF CoInv, ChainInv

\* The rendezvous on resumeCh.
LEMMA CoHandoff ==
    ASSUME TypeOK, CoInv, NEW t \in Threads, NEW co \in Coroutines, Handoff(t, co)
    PROVE  CoInv'
<1>1. ShapeInv /\ FrameInv /\ SyncInv /\ ChainInv /\ co \in Threads /\ co # NoThread
    BY ThreadAssumption DEF CoInv, ShapeInv, Threads
<1>2. /\ at[t] = "sendResume" /\ callee[t] = co /\ at[co] = "recv" /\ co # t
      /\ UNCHANGED <<status, callee, frames, coSyncActive, promoted>>
    BY DEF Handoff, goStack, mode
<1>3. /\ at'[t] = "recvYield" /\ at'[co] = "lua"
      /\ \A x \in Threads : x \notin {t, co} => at'[x] = at[x]
    BY <1>1, <1>2 DEF Handoff, TypeOK
<1>4. /\ Agree(t, co) /\ SyncAgrees(co) /\ Stacked(frames[co]) /\ Topped(frames[co], at[co])
      /\ callee[co] = NoThread
    BY <1>1, <1>2, PlaceKinds DEF ChainInv, CalleeAgrees, Callers, SyncInv, FrameInv
<1>5. /\ promoted[co] /\ status[co] \notin Idle /\ Outermost(frames[co]) # "coclose"
      /\ status[t] = "normal"
    BY <1>2, <1>4 DEF Agree
<1>6. /\ {"sendResume", "recvYield"} \subseteq Waiting
      /\ "lua" \in Active /\ "lua" \notin Waiting /\ "lua" \notin Resting
      /\ "recv" \notin Waiting /\ "recv" \notin Active
      /\ "recvYield" \notin Active /\ "recvYield" \notin Resting /\ "sendResume" \notin Resting
    BY PlaceKinds
<1>7. status[co] = "running"
    BY <1>1, <1>2, <1>5, <1>6 DEF ChainInv, StatusWords, TypeOK, Idle
<1>8. ShapeInv'
    <2>1. Topped(frames[co], "lua")
        BY <1>2, <1>4 DEF Topped
    <2>2. SyncAgrees(co)'
        BY <1>2, <1>4, <1>5 DEF SyncAgrees
    <2> QED
        BY <1>1, <1>2, <1>3, <1>4, <1>6, <2>1, <2>2, ShapeStep
<1>9. Callers' /\ OneCaller' /\ Acyclic'
    BY <1>1, <1>2, <1>3, <1>4, <1>6 DEF ChainInv, Callers, OneCaller, Acyclic
<1>10. Called'
    <2> SUFFICES ASSUME NEW x \in Coroutines, at'[x] \notin Resting
                 PROVE  \E d \in Threads : callee[d] = x
        BY <1>2 DEF Called
    <2>1. CASE x = co
        BY <1>2, <2>1
    <2>2. CASE x # co
        <3>1. x \in Threads
            BY DEF Threads
        <3>2. at[x] \notin Resting
            BY <1>2, <1>3, <1>6, <2>2, <3>1
        <3> QED
            BY <1>1, <3>2 DEF ChainInv, Called
    <2> QED
        BY <2>1, <2>2
<1>11. CalleeAgrees'
    <2> SUFFICES ASSUME NEW d \in Threads, NEW x \in Threads, callee[d] = x
                 PROVE  x \in Coroutines /\ Agree(d, x)'
        BY <1>2 DEF CalleeAgrees
    <2>1. x \in Coroutines /\ Agree(d, x) /\ d # co
        BY <1>1, <1>4, ThreadAssumption DEF ChainInv, CalleeAgrees
    <2>2. CASE d = t
        BY <1>2, <1>3, <1>5, <1>6, <2>1, <2>2 DEF Agree
    <2>3. CASE d # t
        <3>1. x # co /\ at'[d] = at[d]
            BY <1>1, <1>2, <1>3, <2>1, <2>3 DEF ChainInv, OneCaller
        <3>2. at'[x] \in Resting <=> at[x] \in Resting
            BY <1>2, <1>3, <1>6, <3>1
        <3>3. at[x] = "recv" => at'[x] = "recv"
            BY <1>2, <1>3, <3>1
        <3> QED
            BY <1>2, <2>1, <3>1, <3>2, <3>3 DEF Agree
    <2> QED
        BY <2>2, <2>3
<1>12. StatusWords'
    <2>1. ASSUME NEW x \in Threads, status[x] \in {"suspended", "none"}
          PROVE  at'[x] = at[x]
        BY <1>3, <1>5, <1>7, <2>1
    <2> QED
        BY <1>1, <1>2, <1>3, <1>6, <1>7, <2>1 DEF ChainInv, StatusWords
<1> QED
    BY <1>8, <1>9, <1>10, <1>11, <1>12 DEF CoInv, ChainInv

\* A synchronous coroutine gets a goroutine of its own, or dies.
LEMMA CoPromoteDie ==
    ASSUME TypeOK, CoInv, NEW t \in Coroutines, NEW d \in Threads, Promote(t, d) \/ DieSync(t, d)
    PROVE  CoInv'
<1>1. ShapeInv /\ FrameInv /\ SyncInv /\ ChainInv /\ t \in Threads
    BY DEF CoInv, ShapeInv, Threads
<1>2. /\ at[t] \in {"lua", "raise"} /\ callee[d] = t /\ callee' = callee
      /\ ~coSyncActive'[t] /\ \A x \in Threads : x # t => coSyncActive'[x] = coSyncActive[x]
    BY <1>1 DEF Promote, DieSync, Uncaught, TypeOK
<1>3. /\ at[t] \in Active /\ at[t] \notin Resting /\ at[t] \notin Waiting /\ callee[t] = NoThread
      /\ status[t] = "running" /\ "running" \notin Idle
      /\ at[d] \in Waiting /\ d # t /\ Agree(d, t) /\ t # NoThread
    <2>1. at[t] \in Active /\ at[t] \notin Resting /\ at[t] \notin Waiting
        BY <1>2, PlaceKinds
    <2> QED
        BY <1>1, <1>2, <2>1, ThreadAssumption DEF ChainInv, StatusWords, Callers, CalleeAgrees, Idle
<1>4. Stacked(frames[t]) /\ Topped(frames[t], at[t]) /\ SyncAgrees(t)
    BY <1>1 DEF FrameInv, SyncInv
<1>5. at[d] \in {"sendResume", "recvYield", "inResume", "inClose"}
    BY <1>3 DEF Waiting, Driving
<1>6. /\ "inResume" \in Waiting /\ "recvYield" \in Waiting /\ "inResume" \notin Resting
      /\ "recvYield" \notin Resting /\ "inResume" \notin Active /\ "recvYield" \notin Active
      /\ "closing" \in Active /\ "closing" \notin Resting /\ "closing" \notin Waiting
    BY PlaceKinds
<1>7. CASE Promote(t, d)
    <2>1. coSyncActive[t] /\ ~promoted[t] /\ Outermost(frames[t]) \in Flat
        BY <1>4, <1>7 DEF Promote, MustPromote, SyncAgrees
    <2>2. at[d] = "inResume" /\ status[d] = "normal"
        BY <1>3, <1>5, <2>1 DEF Agree
    <2>3. /\ at'[d] = "recvYield" /\ \A x \in Threads : x # d => at'[x] = at[x]
          /\ promoted'[t] = TRUE /\ \A x \in Threads : x # t => promoted'[x] = promoted[x]
          /\ UNCHANGED <<status, frames>>
        BY <1>1, <1>7 DEF Promote, TypeOK, goStack
    <2>4. SyncAgrees(t)'
        BY <1>2, <2>3 DEF SyncAgrees
    <2>5. ShapeInv'
        BY <1>1, <1>2, <1>3, <1>4, <1>6, <2>2, <2>3, <2>4, ShapeStep
    <2>6. Callers' /\ OneCaller' /\ Acyclic'
        BY <1>1, <1>2, <1>6, <2>2, <2>3 DEF ChainInv, Callers, OneCaller, Acyclic
    <2>7. Called'
        BY <1>1, <1>2, <1>6, <2>2, <2>3 DEF ChainInv, Called, Threads
    <2>8. CalleeAgrees'
        <3> SUFFICES ASSUME NEW e \in Threads, NEW x \in Threads, callee[e] = x
                     PROVE  x \in Coroutines /\ Agree(e, x)'
            BY <1>2 DEF CalleeAgrees
        <3>1. x \in Coroutines /\ Agree(e, x) /\ e # t
            BY <1>1, <1>3, ThreadAssumption DEF ChainInv, CalleeAgrees
        <3>2. CASE e = d
            <4>1. x = t /\ Outermost(frames[x]) # "coclose"
                BY <1>2, <2>1, <3>2 DEF Flat
            <4> QED
                BY <1>3, <2>2, <2>3, <3>1, <3>2, <4>1 DEF Agree
        <3>3. CASE e # d
            <4>1. x # t /\ at'[e] = at[e] /\ promoted'[x] = promoted[x]
                  /\ coSyncActive'[x] = coSyncActive[x]
                BY <1>1, <1>2, <1>3, <2>3, <3>3 DEF ChainInv, OneCaller
            <4>2. (at'[x] \in Resting <=> at[x] \in Resting) /\ (at[x] = "recv" => at'[x] = "recv")
                BY <1>6, <2>2, <2>3
            <4> QED
                BY <2>3, <3>1, <4>1, <4>2 DEF Agree
        <3> QED
            BY <3>2, <3>3
    <2>9. StatusWords'
        <3>1. ASSUME NEW x \in Threads, status[x] \in {"suspended", "none"}
              PROVE  at'[x] = at[x] /\ promoted'[x] = promoted[x]
            BY <1>3, <2>2, <2>3, <3>1
        <3> QED
            BY <1>1, <1>6, <2>3, <3>1 DEF ChainInv, StatusWords
    <2> QED
        BY <2>5, <2>6, <2>7, <2>8, <2>9 DEF CoInv, ChainInv
<1>8. CASE DieSync(t, d)
    <2>1. ~promoted[t] /\ at[t] = "raise" /\ Without(frames[t], Catchers)
        BY <1>8 DEF DieSync, Uncaught
    <2>2. Outermost(frames[t]) \notin {"death", "coclose"}
        BY <1>1, <2>1, DyingIsCaught
    <2>3. at[d] = "inResume"
        BY <1>3, <1>5, <2>1, <2>2 DEF Agree
    <2>4. /\ at'[t] = "closing" /\ \A x \in Threads : x # t => at'[x] = at[x]
          /\ status'[d] = "running" /\ \A x \in Threads : x # d => status'[x] = status[x]
          /\ frames'[t] = <<"death">> /\ \A x \in Threads : x # t => frames'[x] = frames[x]
          /\ promoted' = promoted
        BY <1>1, <1>8 DEF DieSync, TypeOK, Unwind
    <2>5. Stacked(frames'[t]) /\ Topped(frames'[t], at'[t]) /\ Outermost(frames'[t]) = "death"
        BY <2>4, SmallStacks
    <2>6. SyncAgrees(t)'
        BY <1>2, <1>6, <2>4, <2>5 DEF SyncAgrees
    <2>7. ShapeInv'
        BY <1>1, <1>2, <2>4, <2>5, <2>6, ShapeStep
    <2>8. Callers' /\ OneCaller' /\ Acyclic'
        BY <1>1, <1>2, <1>3, <1>6, <2>4 DEF ChainInv, Callers, OneCaller, Acyclic
    <2>9. Called'
        BY <1>1, <1>2, <1>3, <2>4 DEF ChainInv, Called, Threads
    <2>10. CalleeAgrees'
        <3> SUFFICES ASSUME NEW e \in Threads, NEW x \in Threads, callee[e] = x
                     PROVE  x \in Coroutines /\ Agree(e, x)'
            BY <1>2 DEF CalleeAgrees
        <3>1. x \in Coroutines /\ Agree(e, x) /\ e # t
            BY <1>1, <1>3, ThreadAssumption DEF ChainInv, CalleeAgrees
        <3>2. CASE e = d
            <4>1. x = t
                BY <1>2, <3>2
            <4> QED
                BY <1>2, <1>3, <1>6, <2>1, <2>3, <2>4, <2>5, <3>1, <3>2, <4>1 DEF Agree
        <3>3. CASE e # d
            <4>1. x # t /\ at'[e] = at[e] /\ at'[x] = at[x] /\ frames'[x] = frames[x]
                  /\ coSyncActive'[x] = coSyncActive[x] /\ status'[e] = status[e]
                  /\ status'[x] \notin Idle
                BY <1>1, <1>2, <1>3, <2>4, <3>1, <3>3 DEF ChainInv, OneCaller, Agree
            <4> QED
                BY <2>4, <3>1, <4>1 DEF Agree
        <3> QED
            BY <3>2, <3>3
    <2>11. StatusWords'
        <3>1. ASSUME NEW x \in Threads, status'[x] \in {"suspended", "none"}
              PROVE  status'[x] = status[x] /\ at'[x] = at[x] /\ frames'[x] = frames[x]
            BY <1>3, <2>4, <3>1
        <3>2. status'[Main] \notin Idle
            BY <1>1, <1>3, <2>4 DEF ChainInv, StatusWords, Threads
        <3>3. at'[d] \notin Active
            BY <1>3, <1>6, <2>3, <2>4
        <3>4. /\ \A x \in Threads : at'[x] \in Active => status'[x] = "running"
              /\ \A x \in Threads : status'[x] = "normal" => at'[x] \in Waiting
            BY <1>1, <1>3, <2>4, <3>3 DEF ChainInv, StatusWords
        <3> QED
            BY <1>1, <2>4, <3>1, <3>2, <3>4 DEF ChainInv, StatusWords
    <2> QED
        BY <2>7, <2>8, <2>9, <2>10, <2>11 DEF CoInv, ChainInv
<1> QED
    BY <1>7, <1>8

\* A variable is declared by the current function and closed from the innermost.
LEMMA TbcChanges ==
    ASSUME TypeOK, [Next]_vars, NEW t \in Threads
    PROVE  /\ promoted[t] => promoted'[t]
           /\ \/ tbc'[t] = tbc[t] \/ tbc'[t] = Front(tbc[t]) \/ tbc'[t] = <<>>
              \/ RegisterTbc(t) /\ tbc'[t] = Append(tbc[t], Len(frames[t]) + 1)
<1>1. ASSUME NEW x \in Threads, Local(x)
      PROVE  /\ promoted' = promoted
             /\ \/ tbc'[t] = tbc[t] \/ tbc'[t] = Front(tbc[t]) \/ tbc'[t] = <<>>
                \/ RegisterTbc(t) /\ tbc'[t] = Append(tbc[t], Len(frames[t]) + 1)
    BY <1>1 DEF Local, Enter, PromotionSwallowed, RegisterTbc, Raise, GoPanic, ScopeExit, RunClose,
        CallClose, EndClose, Return, Catch, CatchPanic, TypeOK, mode, goStack
<1>2. ASSUME NEW x \in Threads, NEW co \in Coroutines,
             \/ Create(x, co) \/ ResumeSync(x, co) \/ ResumePromoted(x, co)
             \/ Handoff(x, co) \/ RecvCoMsg(x, co) \/ Close(x, co)
      PROVE  promoted' = promoted /\ tbc' = tbc
    BY <1>2 DEF Create, ResumeSync, ResumePromoted, StartResume, Handoff, RecvCoMsg, Close, mode,
        goStack
<1>3. ASSUME NEW x \in Coroutines,
             \/ BodyReturnPromoted(x) \/ YieldPromoted(x) \/ DiePromoted(x)
             \/ EndDeathPromoted(x) \/ PanicPromoted(x)
      PROVE  promoted' = promoted /\ tbc' = tbc
    BY <1>3 DEF BodyReturnPromoted, YieldPromoted, DiePromoted, EndDeathPromoted, PanicPromoted,
        mode, goStack
<1>4. ASSUME NEW x \in Coroutines, NEW d \in Threads,
             \/ Promote(x, d) \/ BodyReturnSync(x, d) \/ YieldSync(x, d)
             \/ DieSync(x, d) \/ EndDeathSync(x, d) \/ EndCoClose(x, d) \/ PanicSync(x, d)
      PROVE  (promoted[t] => promoted'[t]) /\ tbc' = tbc
    BY <1>4 DEF Promote, BodyReturnSync, YieldSync, DieSync, EndDeathSync, EndCoClose, PanicSync,
        mode, goStack, TypeOK
<1>5. ASSUME HostError \/ PanicHost
      PROVE  promoted' = promoted /\ (tbc'[t] = tbc[t] \/ tbc'[t] = <<>>)
    BY <1>5 DEF HostError, PanicHost, mode, TypeOK
<1>6. CASE UNCHANGED vars
    BY <1>6 DEF vars, mode, goStack
<1>7. CASE Next
    <2>1. CASE \E x \in Threads : Local(x)
        BY <1>1, <2>1
    <2>2. CASE \E x \in Threads, co \in Coroutines :
                  \/ Create(x, co) \/ ResumeSync(x, co) \/ ResumePromoted(x, co)
                  \/ Handoff(x, co) \/ RecvCoMsg(x, co) \/ Close(x, co)
        BY <1>2, <2>2
    <2>3. CASE \E x \in Coroutines :
                  \/ BodyReturnPromoted(x) \/ YieldPromoted(x) \/ DiePromoted(x)
                  \/ EndDeathPromoted(x) \/ PanicPromoted(x)
        BY <1>3, <2>3
    <2>4. CASE \E x \in Coroutines, d \in Threads :
                  \/ Promote(x, d) \/ BodyReturnSync(x, d) \/ YieldSync(x, d)
                  \/ DieSync(x, d) \/ EndDeathSync(x, d) \/ EndCoClose(x, d) \/ PanicSync(x, d)
        BY <1>4, <2>4
    <2>5. CASE HostError \/ PanicHost
        BY <1>5, <2>5
    <2> QED
        BY <1>7, <2>1, <2>2, <2>3, <2>4, <2>5 DEF Next, Local
<1> QED
    BY <1>6, <1>7

\* What is left of a sequence of numbers when its last is dropped.
LEMMA FrontOfTbc ==
    ASSUME NEW s \in Seq(Nat)
    PROVE  /\ Front(s) \in Seq(Nat) /\ \A i \in DOMAIN Front(s) : i \in DOMAIN s /\ Front(s)[i] = s[i]
           /\ s # <<>> => DOMAIN Front(s) = 1 .. Len(s) - 1
<1>1. Len(s) \in Nat /\ DOMAIN s = 1 .. Len(s) /\ (s = <<>> <=> Len(s) = 0)
    BY LenProperties, EmptySeq
<1>2. /\ Front(s) \in Seq(Nat) /\ (s # <<>> => Len(Front(s)) = Len(s) - 1)
      /\ \A i \in 1 .. Len(s) - 1 : Front(s)[i] = s[i]
    BY FrontType
<1>3. DOMAIN Front(s) = 1 .. Len(Front(s))
    BY <1>2, LenProperties
<1>4. s = <<>> => DOMAIN Front(s) = {}
    <2>1. s = <<>> => Front(s) = <<>>
        BY <1>1, SubSeqEmpty DEF Front
    <2> QED
        BY <2>1
<1>5. s # <<>> => /\ DOMAIN Front(s) = 1 .. Len(s) - 1
                  /\ \A i \in 1 .. Len(s) - 1 : i \in DOMAIN s
    <2>1. \A i \in 1 .. Len(s) - 1 : i \in 1 .. Len(s)
        BY <1>1
    <2> QED
        BY <1>1, <1>2, <1>3, <2>1, Zenon
<1>6. CASE s = <<>>
    BY <1>2, <1>4, <1>6
<1>7. CASE s # <<>>
    BY <1>2, <1>5, <1>7
<1> QED
    BY <1>6, <1>7

\* A variable more.
LEMMA AppendTbc ==
    ASSUME NEW s \in Seq(Nat), NEW n \in Nat
    PROVE  /\ DOMAIN Append(s, n) = 1 .. Len(s) + 1 /\ Append(s, n)[Len(s) + 1] = n
           /\ \A i \in 1 .. Len(s) : Append(s, n)[i] = s[i]
           /\ Len(s) \in Nat /\ DOMAIN s = 1 .. Len(s)
BY AppendProperties, LenProperties

LEMMA TbcAboveStep ==
    ASSUME TypeOK, CoInv, TbcAbove, [Next]_vars
    PROVE  TbcAbove'
<1> SUFFICES ASSUME NEW t \in Coroutines, ~promoted'[t]
             PROVE  \A i \in DOMAIN tbc'[t] : tbc'[t][i] >= 2
    BY DEF TbcAbove
<1>1. t \in Threads /\ tbc[t] \in Seq(Nat) /\ SyncAgrees(t)
    BY DEF Threads, TypeOK, CoInv, ShapeInv, SyncInv
<1>2. /\ ~promoted[t]
      /\ \/ tbc'[t] = tbc[t] \/ tbc'[t] = Front(tbc[t]) \/ tbc'[t] = <<>>
         \/ RegisterTbc(t) /\ tbc'[t] = Append(tbc[t], Len(frames[t]) + 1)
    BY <1>1, TbcChanges
<1>3. \A i \in DOMAIN tbc[t] : tbc[t][i] >= 2
    BY <1>2 DEF TbcAbove
<1>4. CASE tbc'[t] = tbc[t] \/ tbc'[t] = <<>>
    BY <1>3, <1>4
<1>5. CASE tbc'[t] = Front(tbc[t])
    BY <1>1, <1>3, <1>5, FrontOfTbc
<1>6. CASE RegisterTbc(t) /\ tbc'[t] = Append(tbc[t], Len(frames[t]) + 1)
    <2>1. frames[t] # <<>>
        <3>1. at[t] = "lua" /\ ~MustPromote(t)
            BY <1>6 DEF RegisterTbc
        <3>2. at[t] \notin Resting
            BY <3>1, PlaceKinds
        <3>3. CASE coSyncActive[t]
            BY <3>1, <3>3 DEF MustPromote, NoYield, Without
        <3>4. CASE ~coSyncActive[t]
            BY <1>1, <1>2, <3>2, <3>4 DEF SyncAgrees, Outermost
        <3> QED
            BY <3>3, <3>4
    <2>2. Len(frames[t]) + 1 \in Nat /\ Len(frames[t]) + 1 >= 2
        <3>1. frames[t] \in Seq(Frame)
            BY <1>1 DEF TypeOK
        <3> QED
            BY <2>1, <3>1, StackFacts
    <2> DEFINE n == Len(frames[t]) + 1
    <2> HIDE DEF n
    <2>3. tbc'[t] = Append(tbc[t], n) /\ n \in Nat /\ n >= 2
        BY <1>6, <2>2 DEF n
    <2>4. /\ DOMAIN tbc'[t] = 1 .. Len(tbc[t]) + 1 /\ tbc'[t][Len(tbc[t]) + 1] = n
          /\ \A i \in 1 .. Len(tbc[t]) : tbc'[t][i] = tbc[t][i]
          /\ Len(tbc[t]) \in Nat /\ DOMAIN tbc[t] = 1 .. Len(tbc[t])
        BY <1>1, <2>3, AppendTbc
    <2> QED
        BY <1>3, <2>3, <2>4
<1> QED
    BY <1>2, <1>4, <1>5, <1>6

LEMMA CoStep ==
    ASSUME TypeOK, HandInv, CoInv, TbcAbove, [Next]_vars
    PROVE  CoInv'
<1>1. CASE UNCHANGED vars
    BY <1>1 DEF vars, mode, goStack, CoInv, ShapeInv, FrameInv, SyncInv, SyncAgrees, ChainInv, Callers,
        OneCaller, Acyclic, CalleeAgrees, Agree, Called, StatusWords
<1>2. CASE Next
    <2>1. CASE \E t \in Threads : Local(t)
        BY <2>1, CoLocal
    <2>2. CASE \E t \in Threads, co \in Coroutines :
                  ResumeSync(t, co) \/ ResumePromoted(t, co) \/ Close(t, co)
        BY <2>2, CoCalls
    <2>3. CASE \E t \in Threads, co \in Coroutines : Create(t, co) \/ Handoff(t, co)
        BY <2>3, CoCreate, CoHandoff
    <2>4. CASE \E d \in Threads, t \in Coroutines :
                  \/ BodyReturnSync(t, d) \/ YieldSync(t, d) \/ EndDeathSync(t, d)
                  \/ EndCoClose(t, d) \/ PanicSync(t, d) \/ RecvCoMsg(d, t)
        BY <2>4, CoHandsBack
    <2>5. CASE \E d \in Threads, t \in Coroutines : Promote(t, d) \/ DieSync(t, d)
        BY <2>5, CoPromoteDie
    <2>6. CASE \/ HostError \/ PanicHost
               \/ \E t \in Coroutines :
                    \/ BodyReturnPromoted(t) \/ YieldPromoted(t) \/ DiePromoted(t)
                    \/ EndDeathPromoted(t) \/ PanicPromoted(t)
        BY <2>6, CoPromoted DEF Threads
    <2> QED
        BY <1>2, <2>1, <2>2, <2>3, <2>4, <2>5, <2>6 DEF Next, Local
<1> QED
    BY <1>1, <1>2

LEMMA CoInit == Init => CoInv /\ TbcAbove
<1> SUFFICES ASSUME Init PROVE CoInv /\ TbcAbove
    OBVIOUS
<1>1. /\ Main \in Threads /\ Main \notin Coroutines /\ NoThread \notin Threads
      /\ \A t \in Threads : t # Main => t \in Coroutines
    BY ThreadAssumption DEF Threads
<1>2. \A t \in Threads :
        /\ status[t] = IF t = Main THEN "running" ELSE "none"
        /\ at[t] = IF t = Main THEN "lua" ELSE "parked"
        /\ frames[t] = <<>> /\ tbc[t] = <<>> /\ ~promoted[t] /\ ~coSyncActive[t]
        /\ callee[t] = NoThread
    BY DEF Init
<1>3. "lua" \notin Resting /\ "parked" \in Resting /\ "lua" \notin Waiting /\ "parked" \notin Waiting
      /\ "parked" \notin Active /\ "closing" \notin {"lua", "parked"}
    BY PlaceKinds DEF Resting, Waiting, Driving
<1>4. FrameInv
    BY <1>2, <1>3, SmallStacks DEF FrameInv
<1>5. SyncInv
    BY <1>1, <1>2, <1>3 DEF SyncInv, SyncAgrees
<1>6. Callers /\ OneCaller /\ Acyclic /\ CalleeAgrees
    BY <1>1, <1>2, <1>3 DEF Callers, OneCaller, Acyclic, CalleeAgrees
<1>7. Called
    BY <1>1, <1>2, <1>3 DEF Called, Threads
<1>8. StatusWords
    BY <1>1, <1>2, <1>3, SmallStacks DEF StatusWords, Idle
<1>9. TbcAbove
    BY <1>2 DEF TbcAbove, Threads
<1> QED
    BY <1>4, <1>5, <1>6, <1>7, <1>8, <1>9 DEF CoInv, ShapeInv, ChainInv

\* What the theorems below rest on.
BaseInv == TypeOK /\ HandInv /\ CoInv /\ TbcAbove

LEMMA BaseStep ==
    ASSUME BaseInv, [Next]_vars
    PROVE  BaseInv'
<1>1. TypeOK /\ HandInv /\ CoInv /\ TbcAbove
    BY DEF BaseInv
<1>2. TypeOK'
    BY <1>1, TypeStep
<1>3. HandInv'
    BY <1>1, HandStep
<1>4. CoInv'
    BY <1>1, CoStep
<1>5. TbcAbove'
    BY <1>1, TbcAboveStep
<1> QED
    BY <1>2, <1>3, <1>4, <1>5 DEF BaseInv

LEMMA BaseAlways == Spec => []BaseInv
<1>1. Init => HandInv
    BY ThreadAssumption DEF Init, HandInv, OneActive, IdleRests, CallerWaits,
        ResumedIsMarked, Holding, Executing, Sending, Idle, Resting, Threads
<1>2. Init /\ TypeOK => BaseInv
    BY <1>1, CoInit DEF BaseInv
<1>3. BaseInv /\ [Next]_vars => BaseInv'
    BY BaseStep
<1> QED
    BY <1>2, <1>3, TypeCorrect, PTL DEF Spec

LEMMA FlatBeforeYield ==
    ASSUME BaseInv, NEW t \in Threads, coSyncActive[t], ~NoYield(t)
    PROVE  frames[t] = <<>>
<1> SUFFICES ASSUME frames[t] # <<>> PROVE FALSE
    OBVIOUS
<1>1. frames[t] \in Seq(Frame) /\ Outermost(frames[t]) \in Flat
    BY DEF BaseInv, TypeOK, CoInv, ShapeInv, SyncInv, SyncAgrees
<1>2. /\ 1 \in DOMAIN frames[t] /\ frames[t][1] \in Frame
      /\ Outermost(frames[t]) = frames[t][1]
    <2>1. 1 \in 1 .. Len(frames[t]) /\ DOMAIN frames[t] = 1 .. Len(frames[t])
        BY <1>1, StackFacts
    <2> QED
        BY <1>1, <2>1, ElementOfSeq DEF Outermost
<1>3. frames[t][1] \in {"noyield", "gc"}
    BY <1>1, <1>2 DEF Flat, Frame, CallFrames, CloseFrames
<1> QED
    BY <1>2, <1>3 DEF NoYield, Without

\* A coroutine driven on its resumer's goroutine that may yield has no call
\* frame: it was promoted before it could make one (call, coYieldFn), so the
\* panic of its yield discards no Go activation.
THEOREM SyncYieldsAreFlat == Spec => []SyncYieldIsFlat
<1>1. BaseInv => SyncYieldIsFlat
    BY FlatBeforeYield DEF SyncYieldIsFlat
<1> QED
    BY <1>1, BaseAlways, PTL

-----------------------------------------------------------------------------
(* The channels.  Without a yield below coroutine.close or below the       *)
(* handlers of a coroutine that died unpromoted, who sends is received.    *)

\* A thread run by a goroutine that waits for no message sends none.
ReceiverInv ==
    /\ at[Main] \notin Sending
    /\ \A d, t \in Threads :
           callee[d] = t /\ at[d] \in {"inResume", "inClose"} => at[t] \notin Sending

\* How a thread comes to send, and to drive another.
LEMMA PlaceSteps ==
    ASSUME BaseInv, [Next]_vars, NEW t \in Threads
    PROVE  /\ at'[t] \in Sending =>
                \/ at[t] \in Sending
                \/ t \in Coroutines /\ (BodyReturnPromoted(t) \/ YieldPromoted(t) \/ EndDeathPromoted(t))
           /\ at'[t] \in {"inResume", "inClose"} =>
                \/ at'[t] = at[t] /\ callee'[t] = callee[t]
                \/ \E co \in Coroutines : callee'[t] = co /\ at'[co] \in Executing
<1> USE DEF BaseInv
<1>1. /\ at \in [Threads -> Place] /\ callee \in [Threads -> Threads \cup {NoThread}]
      /\ Coroutines \subseteq Threads /\ Main \notin Coroutines /\ Main \in Threads
    BY ThreadAssumption DEF TypeOK, Threads
<1>2. /\ \A p \in Executing : p \notin Sending /\ p \notin {"inResume", "inClose"}
      /\ \A p \in Sending : p \notin {"inResume", "inClose"}
      /\ {"lua", "raise", "panic", "closing"} \subseteq Executing
      /\ Sending = {"sendYield", "sendReturn", "sendError"}
    BY DEF Executing, Sending
<1>3. ASSUME NEW x \in Threads, Local(x)
      PROVE  \/ at'[t] = at[t] /\ callee'[t] = callee[t]
             \/ at'[t] \in Executing
    <2>1. PICK g, p : StackMove(x, g, p)
        BY <1>3, LocalMoves DEF CoInv, ShapeInv
    <2>2. at' = [at EXCEPT ![x] = p] /\ p \in Executing
        BY <2>1 DEF StackMove
    <2>3. callee' = callee
        BY <1>3 DEF Local, Enter, PromotionSwallowed, RegisterTbc, Raise, GoPanic, ScopeExit,
            RunClose, CallClose, EndClose, Return, Catch, CatchPanic
    <2> QED
        BY <1>1, <2>2, <2>3
<1>4. ASSUME NEW x \in Threads, NEW co \in Coroutines,
             ResumeSync(x, co) \/ Close(x, co)
      PROVE  \/ at'[t] = at[t] /\ callee'[t] = callee[t]
             \/ at'[t] \in Executing
             \/ /\ at'[t] \in {"inResume", "inClose"} /\ callee'[t] = co
                /\ at'[co] \in Executing
    <2>1. x # co
        BY <1>4, ExecutingIsNotIdle DEF ResumeSync, StartResume, Resumable, Close, Idle, Executing, CoInv,
            ChainInv, StatusWords, Active
    <2>2. CASE ResumeSync(x, co)
        BY <1>1, <1>2, <2>1, <2>2 DEF ResumeSync, StartResume
    <2>3. CASE Close(x, co)
        BY <1>1, <1>2, <2>1, <2>3 DEF Close
    <2> QED
        BY <1>4, <2>2, <2>3
<1>5. ASSUME NEW x \in Threads, NEW co \in Coroutines,
             \/ Create(x, co) \/ ResumePromoted(x, co) \/ Handoff(x, co) \/ RecvCoMsg(x, co)
      PROVE  \/ at'[t] = at[t] /\ callee'[t] = callee[t]
             \/ at'[t] \in Executing \cup {"sendResume", "recvYield", "recv", "gone"}
    BY <1>1, <1>2, <1>5 DEF Create, ResumePromoted, StartResume, Handoff, RecvCoMsg, AfterMessage
<1>6. ASSUME NEW x \in Coroutines,
             \/ BodyReturnPromoted(x) \/ YieldPromoted(x) \/ EndDeathPromoted(x)
      PROVE  \/ at'[t] = at[t] /\ callee'[t] = callee[t]
             \/ t = x /\ at'[t] \in Sending
    BY <1>1, <1>2, <1>6 DEF BodyReturnPromoted, YieldPromoted, EndDeathPromoted
<1>7. ASSUME NEW x \in Coroutines, NEW d \in Threads,
             \/ Promote(x, d) \/ BodyReturnSync(x, d) \/ YieldSync(x, d) \/ DieSync(x, d)
             \/ EndDeathSync(x, d) \/ EndCoClose(x, d) \/ PanicSync(x, d)
             \/ DiePromoted(x) \/ PanicPromoted(x) \/ HostError \/ PanicHost \/ UNCHANGED vars
      PROVE  \/ at'[t] = at[t] /\ callee'[t] = callee[t]
             \/ at'[t] \in Executing \cup {"recvYield", "parked", "crash", "gone"}
    BY <1>1, <1>2, <1>7 DEF Promote, BodyReturnSync, YieldSync, DieSync, EndDeathSync, EndCoClose,
        PanicSync, DiePromoted, PanicPromoted, HostError, PanicHost, vars
<1>8. /\ "sendResume" \notin Sending /\ "recvYield" \notin Sending /\ "recv" \notin Sending
      /\ "gone" \notin Sending /\ "parked" \notin Sending /\ "crash" \notin Sending
      /\ "inResume" \notin Sending /\ "inClose" \notin Sending
    BY DEF Sending
<1>9. CASE Next
    <2>1. CASE \E x \in Threads : Local(x)
        BY <1>2, <1>3, <2>1
    <2>2. CASE \E x \in Threads, co \in Coroutines : ResumeSync(x, co) \/ Close(x, co)
        BY <1>2, <1>4, <1>8, <2>2
    <2>3. CASE \E x \in Threads, co \in Coroutines :
                   \/ Create(x, co) \/ ResumePromoted(x, co) \/ Handoff(x, co) \/ RecvCoMsg(x, co)
        BY <1>2, <1>5, <1>8, <2>3
    <2>4. CASE \E x \in Coroutines : \/ BodyReturnPromoted(x) \/ YieldPromoted(x)
                                     \/ EndDeathPromoted(x)
        BY <1>2, <1>6, <2>4
    <2>5. CASE \E x \in Coroutines, d \in Threads :
                   \/ Promote(x, d) \/ BodyReturnSync(x, d) \/ YieldSync(x, d) \/ DieSync(x, d)
                   \/ EndDeathSync(x, d) \/ EndCoClose(x, d) \/ PanicSync(x, d)
        BY <1>2, <1>7, <1>8, <2>5
    <2>6. CASE \E x \in Coroutines : DiePromoted(x) \/ PanicPromoted(x)
        BY <1>1, <1>2, <1>7, <1>8, <2>6
    <2>7. CASE HostError \/ PanicHost
        <3>1. (at'[t] = at[t] /\ callee'[t] = callee[t]) \/ at'[t] \in Executing \cup {"gone"}
            BY <1>1, <1>2, <2>7 DEF HostError, PanicHost
        <3> QED
            BY <1>2, <1>8, <3>1
    <2> QED
        BY <1>9, <2>1, <2>2, <2>3, <2>4, <2>5, <2>6, <2>7 DEF Next, Local
<1>10. CASE UNCHANGED vars
    BY <1>10 DEF vars
<1> QED
    BY <1>9, <1>10

LEMMA ReceiverStep ==
    ASSUME BaseInv, ReceiverInv, [Next]_vars, "closeYield" \notin Behaviours
    PROVE  ReceiverInv'
<1>1. TypeOK /\ FrameInv /\ CalleeAgrees
    BY DEF BaseInv, CoInv, ShapeInv, ChainInv
<1>2. at'[Main] \notin Sending
    BY PlaceSteps, ThreadAssumption DEF ReceiverInv, Threads
<1>3. ASSUME NEW d \in Threads, NEW t \in Threads, callee'[d] = t,
             at'[d] \in {"inResume", "inClose"}, at'[t] \in Sending
      PROVE  FALSE
    <2>1. at'[d] = at[d] /\ callee'[d] = callee[d]
        <3>1. at'[t] \notin Executing
            BY <1>3 DEF Executing, Sending
        <3> QED
            BY <1>3, <3>1, PlaceSteps
    <2>2. Agree(d, t) /\ at[d] \in {"inResume", "inClose"} /\ callee[d] = t
        BY <1>1, <1>3, <2>1 DEF CalleeAgrees
    <2>3. at[t] \notin Sending
        BY <2>2 DEF ReceiverInv
    <2>4. t \in Coroutines /\ (BodyReturnPromoted(t) \/ YieldPromoted(t) \/ EndDeathPromoted(t))
        BY <1>3, <2>3, PlaceSteps
    <2>5. CASE BodyReturnPromoted(t)
        <3>1. promoted[t] /\ frames[t] = <<>>
            BY <2>5 DEF BodyReturnPromoted
        <3> QED
            BY <2>2, <3>1 DEF Agree, Outermost
    <2>6. CASE YieldPromoted(t)
        BY <2>2, <2>6 DEF YieldPromoted, OnChannel, MayYield, RunByOther
    <2>7. CASE EndDeathPromoted(t)
        <3>1. promoted[t] /\ Outermost(frames[t]) = "death"
            BY <1>1, <2>7, EndingFrame DEF EndDeathPromoted
        <3> QED
            BY <2>2, <3>1 DEF Agree
    <2> QED
        BY <2>4, <2>5, <2>6, <2>7
<1> QED
    BY <1>2, <1>3 DEF ReceiverInv

\* Unless a __close handler yields that coroutine.close runs, or that a
\* coroutine runs which died before it was promoted, the goroutine that blocks
\* on yieldCh is a promoted coroutine whose resumer is in recvCoMsg.  With such
\* a yield it need not be, as the run coroutine_close_yield shows.
THEOREM SendsAreReceived ==
    ASSUME "closeYield" \notin Behaviours
    PROVE  Spec => []YieldHasReceiver
<1>1. Init => ReceiverInv
    BY ThreadAssumption DEF Init, ReceiverInv, Threads, Sending
<1>2. BaseInv /\ ReceiverInv /\ [Next]_vars => ReceiverInv'
    BY ReceiverStep
<1>3. BaseInv /\ ReceiverInv => YieldHasReceiver
    <2> SUFFICES ASSUME BaseInv, ReceiverInv, NEW t \in Threads, at[t] \in Sending
                 PROVE  \E d \in Threads : callee[d] = t /\ at[d] = "recvYield"
        BY DEF YieldHasReceiver
    <2>1. t \in Coroutines /\ at[t] \notin Resting
        BY PlaceKinds DEF ReceiverInv, Threads
    <2>2. PICK d \in Threads : callee[d] = t
        BY <2>1 DEF BaseInv, CoInv, ChainInv, Called
    <2>3. Agree(d, t) /\ at[d] \in Waiting
        BY <2>1, <2>2, ThreadAssumption DEF BaseInv, CoInv, ChainInv, CalleeAgrees, Callers
    <2>4. at[d] # "sendResume" /\ at[d] \notin {"inResume", "inClose"}
        BY <2>1, <2>2, <2>3 DEF Agree, ReceiverInv
    <2> QED
        BY <2>2, <2>3, <2>4 DEF Waiting, Driving
<1> QED
    BY <1>1, <1>2, <1>3, BaseAlways, PTL DEF Spec

-----------------------------------------------------------------------------
(* The status words.  A Go callback that panics leaves the coroutine it    *)
(* unwinds marked running (lcorolib.go:176); without one they are true.    *)

\* No thread is unwound by a panic; one that is marked running and rests is
\* about to be resumed.
RunInv ==
    /\ \A t \in Threads : at[t] # "panic"
    /\ at[Main] \notin Resting
    /\ \A t \in Threads : status[t] = "running" /\ at[t] \in Resting =>
           \E d \in Threads : callee[d] = t

\* How a thread comes to rest, to be marked running, and to lose its caller.
LEMMA RunSteps ==
    ASSUME BaseInv, [Next]_vars, \A t \in Threads : at[t] # "panic",
           "goPanic" \notin Behaviours, NEW t \in Threads
    PROVE  /\ at'[t] # "panic"
           /\ at'[t] \in Resting => at[t] \in Resting \/ t \in Coroutines
           /\ \/ status'[t] # "running" \/ at'[t] \notin Resting
              \/ \E d \in Threads : callee'[d] = t
              \/ /\ status[t] = "running" /\ at[t] \in Resting
                 /\ \A d \in Threads : callee[d] = t => callee'[d] = t
<1> USE DEF BaseInv
<1>1. /\ at \in [Threads -> Place] /\ callee \in [Threads -> Threads \cup {NoThread}]
      /\ status \in [Threads -> {"none", "suspended", "running", "normal", "dead"}]
      /\ Coroutines \subseteq Threads /\ Main \notin Coroutines /\ Main \in Threads
      /\ NoThread \notin Threads /\ \A x \in Threads : x # Main => x \in Coroutines
    BY ThreadAssumption DEF TypeOK, Threads
<1>2. /\ \A p \in Executing \cup Sending \cup {"sendResume", "recvYield", "inResume", "inClose"} :
             p \notin Resting
      /\ {"lua", "raise", "panic", "closing"} \subseteq Executing
      /\ {"recv", "gone", "parked"} \subseteq Resting
    BY DEF Executing, Sending, Resting
<1> DEFINE Calm ==
        /\ at'[t] # "panic"
        /\ at'[t] \in Resting => at[t] \in Resting \/ t \in Coroutines
        /\ \/ status'[t] # "running" \/ at'[t] \notin Resting
           \/ \E d \in Threads : callee'[d] = t
           \/ /\ status[t] = "running" /\ at[t] \in Resting
              /\ \A d \in Threads : callee[d] = t => callee'[d] = t
<1>3. ASSUME NEW x \in Threads, Local(x)
      PROVE  Calm
    <2>1. PICK g, p : StackMove(x, g, p)
        BY <1>3, LocalMoves DEF CoInv, ShapeInv
    <2>2. at' = [at EXCEPT ![x] = p] /\ p \in Executing
        BY <2>1 DEF StackMove
    <2>3. callee' = callee /\ status' = status /\ at'[x] # "panic"
        BY <1>1, <1>3 DEF Local, Enter, PromotionSwallowed, RegisterTbc, Raise, GoPanic, ScopeExit,
            RunClose, CallClose, EndClose, Return, Catch, CatchPanic
    <2> QED
        BY <1>1, <1>2, <2>2, <2>3
<1>4. ASSUME NEW x \in Threads, NEW co \in Coroutines,
             \/ Create(x, co) \/ ResumeSync(x, co) \/ ResumePromoted(x, co)
             \/ Handoff(x, co) \/ Close(x, co)
      PROVE  Calm
    <2>1. CASE Create(x, co)
        BY <1>1, <1>2, <2>1 DEF Create
    <2>2. CASE ResumeSync(x, co)
        <3>1. x # co /\ callee[x] = NoThread
            BY <1>1, <2>2, ExecutingIsNotIdle, PlaceKinds DEF ResumeSync, StartResume, Resumable, Idle,
                Executing, CoInv, ChainInv, Callers, Waiting, Driving
        <3>2. /\ at' = [at EXCEPT ![x] = "inResume", ![co] = "lua"]
              /\ status' = [status EXCEPT ![co] = "running", ![x] = "normal"]
              /\ callee' = [callee EXCEPT ![x] = co]
            BY <2>2 DEF ResumeSync, StartResume, Handover
        <3> QED
            BY <1>1, <1>2, <3>1, <3>2
    <2>3. CASE ResumePromoted(x, co)
        <3>1. x # co /\ callee[x] = NoThread
            BY <1>1, <2>3, ExecutingIsNotIdle, PlaceKinds DEF ResumePromoted, StartResume, Resumable, Idle,
                Executing, CoInv, ChainInv, Callers, Waiting, Driving
        <3>2. /\ at' = [at EXCEPT ![x] = "sendResume"]
              /\ status' = [status EXCEPT ![co] = "running", ![x] = "normal"]
              /\ callee' = [callee EXCEPT ![x] = co]
            BY <2>3 DEF ResumePromoted, StartResume, Handover
        <3> QED
            BY <1>1, <1>2, <3>1, <3>2
    <2>4. CASE Handoff(x, co)
        BY <1>1, <1>2, <2>4 DEF Handoff
    <2>5. CASE Close(x, co)
        <3>1. x # co /\ callee[x] = NoThread
            BY <1>1, <2>5, ExecutingIsNotIdle, PlaceKinds DEF Close, Idle,
                Executing, CoInv, ChainInv, Callers, Waiting, Driving
        <3> QED
            BY <1>1, <1>2, <2>5, <3>1 DEF Close
    <2> QED
        BY <1>4, <2>1, <2>2, <2>3, <2>4, <2>5
<1>5. ASSUME NEW x \in Coroutines, NEW d \in Threads,
             \/ BodyReturnSync(x, d) \/ YieldSync(x, d) \/ EndDeathSync(x, d)
             \/ EndCoClose(x, d) \/ RecvCoMsg(d, x)
      PROVE  Calm
    <2>1. callee[d] = x /\ d # x /\ (at[x] \in Executing \/ at[x] \in Sending)
        <3>1. callee[d] = x /\ (at[x] \in Executing \/ at[x] \in Sending)
            BY <1>2, <1>5 DEF BodyReturnSync, YieldSync, MayYield, EndDeathSync, EndCoClose, RecvCoMsg
        <3>2. at[d] \in Waiting /\ at[x] \notin Waiting
            BY <1>1, <3>1, PlaceKinds DEF CoInv, ChainInv, Callers
        <3> QED
            BY <3>1, <3>2
    <2>2. /\ callee' = [callee EXCEPT ![d] = NoThread]
          /\ status'[x] \in {"dead", "suspended"} /\ at'[d] = "lua" /\ at'[x] \in Resting
          /\ \A y \in Threads : y \notin {x, d} => at'[y] = at[y] /\ status'[y] = status[y]
        BY <1>1, <1>2, <1>5, <2>1 DEF BodyReturnSync, YieldSync, EndDeathSync, EndCoClose, RecvCoMsg,
            MessageStatus, AfterMessage
    <2>3. at'[x] # "panic" /\ status'[x] # "running"
        BY <1>2, <2>2
    <2> QED
        BY <1>1, <1>2, <2>1, <2>2, <2>3
<1>6. ASSUME NEW x \in Coroutines, NEW d \in Threads, Promote(x, d) \/ DieSync(x, d)
      PROVE  Calm
    <2>1. callee[d] = x /\ at[x] \in Executing
        BY <1>2, <1>6 DEF Promote, DieSync, Uncaught
    <2>2. at[d] \notin Resting /\ d # x
        <3>1. at[d] \in Waiting /\ at[x] \notin Waiting
            BY <1>1, <2>1, PlaceKinds DEF CoInv, ChainInv, Callers
        <3> QED
            BY <3>1, PlaceKinds
    <2> QED
        BY <1>1, <1>2, <1>6, <2>1, <2>2 DEF Promote, DieSync
<1>7. ASSUME NEW x \in Coroutines,
             \/ BodyReturnPromoted(x) \/ YieldPromoted(x) \/ DiePromoted(x) \/ EndDeathPromoted(x)
      PROVE  Calm
    BY <1>1, <1>2, <1>7 DEF BodyReturnPromoted, YieldPromoted, DiePromoted, EndDeathPromoted, Sending
<1>8. CASE HostError
    BY <1>1, <1>2, <1>8 DEF HostError
<1>9. ~PanicHost /\ \A x \in Coroutines : ~PanicPromoted(x) /\ \A d \in Threads : ~PanicSync(x, d)
    BY <1>1 DEF PanicHost, PanicPromoted, PanicSync, PanicUncaught
<1>10. CASE UNCHANGED vars
    BY <1>1, <1>10 DEF vars
<1>11. CASE Next
    <2>1. CASE \E x \in Threads : Local(x)
        BY <1>3, <2>1
    <2>2. CASE \E x \in Threads, co \in Coroutines :
                   \/ Create(x, co) \/ ResumeSync(x, co) \/ ResumePromoted(x, co)
                   \/ Handoff(x, co) \/ Close(x, co)
        BY <1>4, <2>2
    <2>3. CASE \E x \in Coroutines, d \in Threads :
                   \/ BodyReturnSync(x, d) \/ YieldSync(x, d) \/ EndDeathSync(x, d)
                   \/ EndCoClose(x, d) \/ RecvCoMsg(d, x)
        BY <1>5, <2>3
    <2>4. CASE \E x \in Coroutines, d \in Threads : Promote(x, d) \/ DieSync(x, d)
        BY <1>6, <2>4
    <2>5. CASE \E x \in Coroutines : \/ BodyReturnPromoted(x) \/ YieldPromoted(x)
                                     \/ DiePromoted(x) \/ EndDeathPromoted(x)
        BY <1>7, <2>5
    <2> HIDE DEF Calm
    <2> QED
        BY <1>8, <1>9, <1>11, <2>1, <2>2, <2>3, <2>4, <2>5 DEF Next, Local
<1> QED
    BY <1>10, <1>11

\* What the parts of CoInv say of the status words.
LEMMA WordsFromChain ==
    ASSUME BaseInv
    PROVE  StatusAgrees /\ ChainIsAcyclic
<1>1. TypeOK /\ Callers /\ OneCaller /\ Acyclic /\ CalleeAgrees /\ StatusWords
    BY DEF BaseInv, CoInv, ChainInv
<1>2. ASSUME NEW t \in Threads
      PROVE  /\ at[t] \in Executing \cup Sending => status[t] = "running"
             /\ status[t] = "normal" <=>
                  \/ at[t] \in {"sendResume", "recvYield"}
                  \/ at[t] = "inResume" /\ coSyncActive[callee[t]]
             /\ status[t] = "suspended" => at[t] = IF promoted[t] THEN "recv" ELSE "parked"
    <2>1. at[t] \in Waiting => callee[t] \in Threads /\ Agree(t, callee[t])
        <3>1. at[t] \in Waiting => callee[t] \in Threads
            BY <1>1 DEF TypeOK, Callers
        <3> QED
            BY <1>1, <3>1 DEF CalleeAgrees
    <2>2. status[t] = "normal" => at[t] \in Waiting
        BY <1>1 DEF StatusWords
    <2>3. at[t] \in Waiting =>
            (status[t] = "normal" <=> \/ at[t] \in {"sendResume", "recvYield"}
                                      \/ at[t] = "inResume" /\ coSyncActive[callee[t]])
        BY <2>1 DEF Agree, Waiting, Driving
    <2>4. at[t] \in {"sendResume", "recvYield", "inResume"} => at[t] \in Waiting
        BY PlaceKinds
    <2> QED
        BY <1>1, <2>2, <2>3, <2>4 DEF StatusWords, Active
<1> QED
    BY <1>1, <1>2 DEF StatusAgrees, ChainIsAcyclic, OneCaller, Acyclic

\* Unless a registered Go callback panics: the status words, the goroutines and
\* the chain of resumes tell the same story, no two threads drive the same
\* coroutine, no threads wait for each other in a cycle, and no coroutine is
\* left running with nothing to run it (resume, recvCoMsg, coClose).
THEOREM StatusIsTrue ==
    ASSUME "goPanic" \notin Behaviours
    PROVE  Spec => []ChainTellsTruth
<1>1. Init => RunInv
    BY ThreadAssumption DEF Init, RunInv, Threads, Resting
<1>2. BaseInv /\ RunInv /\ [Next]_vars => RunInv'
    <2> SUFFICES ASSUME BaseInv, RunInv, [Next]_vars PROVE RunInv'
        OBVIOUS
    <2>1. \A t \in Threads : at[t] # "panic"
        BY DEF RunInv
    <2>2. \A t \in Threads : at'[t] # "panic"
        BY <2>1, RunSteps
    <2>3. at'[Main] \notin Resting
        BY <2>1, RunSteps, ThreadAssumption DEF RunInv, Threads
    <2>4. ASSUME NEW t \in Threads, status'[t] = "running", at'[t] \in Resting
          PROVE  \E d \in Threads : callee'[d] = t
        BY <2>1, <2>4, RunSteps DEF RunInv
    <2> QED
        BY <2>2, <2>3, <2>4 DEF RunInv
<1>3. BaseInv /\ RunInv => ChainTellsTruth
    <2> SUFFICES ASSUME BaseInv, RunInv, NEW t \in Threads, status[t] = "running"
                 PROVE  \/ at[t] \in Holding \cup {"inClose", "inResume"}
                        \/ \E d \in Threads : callee[d] = t /\ at[d] = "sendResume"
        BY WordsFromChain DEF ChainTellsTruth, RunningIsLive
    <2>1. at[t] \in Place
        BY DEF BaseInv, TypeOK
    <2>2. CASE at[t] \in Resting
        <3>1. PICK d \in Threads : callee[d] = t
            BY <2>2 DEF RunInv
        <3>2. Agree(d, t)
            BY <3>1 DEF BaseInv, CoInv, ChainInv, CalleeAgrees
        <3> QED
            BY <2>2, <3>1, <3>2 DEF Agree
    <2>3. at[t] # "recvYield"
        BY WordsFromChain DEF StatusAgrees
    <2> QED
        BY <2>1, <2>2, <2>3 DEF Place, Driving
<1> QED
    BY <1>1, <1>2, <1>3, BaseAlways, PTL DEF Spec

-----------------------------------------------------------------------------
(* To-be-closed variables.  Behaviours excluded: a <close> variable of a   *)
(* __gc metamethod, whose error leaves it pending, and panics, which drop  *)
(* what coroutine.close has still to close.                                *)

NoCloseBelow(fs, q) == \A j \in DOMAIN fs : j < q => fs[j] \notin CloseFrames

\* Below the outermost close frame every function has declared its variables
\* after those of its callers; where no close frame is left, nothing is pending
\* for a function that is gone.
Rising(fs, s) ==
    \A q \in 1 .. Len(fs) + 1 : NoCloseBelow(fs, q) =>
        \A i, j \in DOMAIN s : i < j /\ s[j] <= q => s[i] <= s[j]

Balanced(fs, s) == Without(fs, CloseFrames) => \A i \in DOMAIN s : s[i] <= Len(fs) + 1

\* A finalizer declares none.
GcClean(fs, s) ==
    \A p \in DOMAIN fs : fs[p] = "gc" /\ NoCloseBelow(fs, p) => \A i \in DOMAIN s : s[i] <= p

Owed(fs, s) ==
    /\ \A i \in DOMAIN s : s[i] >= 1
    /\ Rising(fs, s) /\ Balanced(fs, s) /\ GcClean(fs, s)

LEMMA OwedNothing ==
    ASSUME NEW fs
    PROVE  Owed(fs, <<>>)
BY DEF Owed, Rising, Balanced, GcClean

LEMMA OwedFront ==
    ASSUME NEW fs \in Seq(Frame), NEW s \in Seq(Nat), Owed(fs, s)
    PROVE  Owed(fs, Front(s))
<1>1. \A i \in DOMAIN Front(s) : i \in DOMAIN s /\ Front(s)[i] = s[i]
    BY FrontOfTbc
<1> HIDE DEF Front
<1>2. Rising(fs, Front(s))
    BY <1>1 DEF Owed, Rising
<1>3. Balanced(fs, Front(s)) /\ GcClean(fs, Front(s))
    BY <1>1 DEF Owed, Balanced, GcClean
<1> QED
    BY <1>1, <1>2, <1>3 DEF Owed

\* A frame more: the variables of the functions below stay what they are.
LEMMA OwedPush ==
    ASSUME NEW fs \in Seq(Frame), NEW s \in Seq(Nat), Owed(fs, s), NEW k \in Frame
    PROVE  Owed(Append(fs, k), s)
<1> DEFINE g == Append(fs, k)
           n == Len(fs)
<1>1. /\ n \in Nat /\ DOMAIN fs = 1 .. n /\ g \in Seq(Frame) /\ Len(g) = n + 1 /\ g[n + 1] = k
      /\ DOMAIN g = 1 .. n + 1 /\ \A i \in 1 .. n : g[i] = fs[i]
    BY AppendProperties, StackFacts
<1>2. \A i \in DOMAIN s : s[i] \in Nat
    BY ElementOfSeq, LenProperties
<1> HIDE DEF g, n
<1>3. \A q \in 1 .. n + 1 : NoCloseBelow(g, q) => NoCloseBelow(fs, q)
    BY <1>1 DEF NoCloseBelow
<1>4. /\ NoCloseBelow(g, n + 1) => Without(fs, CloseFrames)
      /\ NoCloseBelow(g, n + 2) => Without(fs, CloseFrames) /\ NoCloseBelow(fs, n + 1)
      /\ Without(g, CloseFrames) => Without(fs, CloseFrames)
    BY <1>1, SMTT(30) DEF NoCloseBelow, Without
<1>5. Without(fs, CloseFrames) => \A i \in DOMAIN s : s[i] <= n + 1
    BY DEF Owed, Balanced, n
<1>6. \A q \in 1 .. n + 1 : NoCloseBelow(fs, q) =>
          \A i, j \in DOMAIN s : i < j /\ s[j] <= q => s[i] <= s[j]
    BY DEF Owed, Rising, n
<1>7. Rising(g, s)
    <2> SUFFICES ASSUME NEW q \in 1 .. n + 2, NoCloseBelow(g, q),
                        NEW i \in DOMAIN s, NEW j \in DOMAIN s, i < j, s[j] <= q
                 PROVE  s[i] <= s[j]
        BY <1>1 DEF Rising
    <2>1. CASE q \in 1 .. n + 1
        BY <1>3, <1>6, <2>1
    <2>2. CASE q = n + 2
        <3>1. s[j] <= n + 1 /\ NoCloseBelow(fs, n + 1) /\ n + 1 \in 1 .. n + 1
            BY <1>1, <1>4, <1>5, <2>2
        <3> QED
            BY <1>6, <3>1
    <2> QED
        BY <1>1, <2>1, <2>2
<1>8. Balanced(g, s)
    <2> SUFFICES ASSUME Without(fs, CloseFrames), NEW i \in DOMAIN s
                 PROVE  s[i] <= n + 1 + 1
        BY <1>1, <1>4 DEF Balanced
    <2> QED
        BY <1>1, <1>2, <1>5
<1>9. GcClean(g, s)
    <2> SUFFICES ASSUME NEW p \in 1 .. n + 1, g[p] = "gc", NoCloseBelow(g, p)
                 PROVE  \A i \in DOMAIN s : s[i] <= p
        BY <1>1 DEF GcClean
    <2>1. CASE p \in 1 .. n
        <3>1. p \in DOMAIN fs /\ fs[p] = "gc" /\ p \in 1 .. n + 1
            BY <1>1, <2>1
        <3> QED
            BY <1>3, <3>1 DEF Owed, GcClean
    <2>2. CASE p = n + 1
        BY <1>4, <1>5, <2>2
    <2> QED
        BY <1>1, <2>1, <2>2
<1> QED
    BY <1>7, <1>8, <1>9 DEF Owed, g

\* The stack is cut back to its first n frames; whether that leaves a variable
\* pending for a function that is gone has to be shown.
LEMMA OwedCut ==
    ASSUME NEW fs \in Seq(Frame), NEW s \in Seq(Nat), Owed(fs, s), NEW n \in 0 .. Len(fs),
           Balanced(SubSeq(fs, 1, n), s)
    PROVE  Owed(SubSeq(fs, 1, n), s)
<1> DEFINE g == SubSeq(fs, 1, n)
<1>1. /\ Len(fs) \in Nat /\ n \in Nat /\ DOMAIN fs = 1 .. Len(fs) /\ g \in Seq(Frame) /\ Len(g) = n
      /\ \A i \in 1 .. n : g[i] = fs[i]
    BY StackFacts, PrefixType
<1>2. DOMAIN g = 1 .. n
    BY <1>1, StackFacts
<1> HIDE DEF g
<1>3. /\ \A i \in 1 .. n : i \in 1 .. Len(fs)
      /\ \A q \in 1 .. n + 1 : q \in 1 .. Len(fs) + 1
    BY <1>1
<1>4. \A q \in 1 .. n + 1 : NoCloseBelow(g, q) => NoCloseBelow(fs, q)
    BY <1>1, <1>2 DEF NoCloseBelow
<1>5. Rising(g, s)
    BY <1>1, <1>3, <1>4 DEF Owed, Rising
<1>6. GcClean(g, s)
    <2> SUFFICES ASSUME NEW p \in 1 .. n, g[p] = "gc", NoCloseBelow(g, p)
                 PROVE  \A i \in DOMAIN s : s[i] <= p
        BY <1>2 DEF GcClean
    <2>1. p \in DOMAIN fs /\ fs[p] = "gc" /\ p \in 1 .. n + 1
        BY <1>1, <1>3
    <2> QED
        BY <1>4, <2>1 DEF Owed, GcClean
<1> QED
    BY <1>5, <1>6 DEF Owed, g

\* With a close frame left there is nothing to show.
LEMMA ClosingIsBalanced ==
    ASSUME NEW fs, NEW s, NEW i \in DOMAIN fs, fs[i] \in CloseFrames
    PROVE  Balanced(fs, s)
BY DEF Balanced, Without

\* A close frame on the first n frames.
LEMMA OwedCutClose ==
    ASSUME NEW fs \in Seq(Frame), NEW s \in Seq(Nat), Owed(fs, s), NEW n \in 0 .. Len(fs),
           NEW k \in CloseFrames
    PROVE  Owed(Append(SubSeq(fs, 1, n), k), s)
<1> DEFINE g == Append(SubSeq(fs, 1, n), k)
<1>1. k \in Frame /\ k # "gc"
    BY DEF Frame, CloseFrames
<1>2. /\ Len(fs) \in Nat /\ n \in Nat /\ DOMAIN fs = 1 .. Len(fs) /\ SubSeq(fs, 1, n) \in Seq(Frame)
      /\ Len(SubSeq(fs, 1, n)) = n /\ \A i \in 1 .. n : SubSeq(fs, 1, n)[i] = fs[i]
    BY StackFacts, PrefixType
<1>3. /\ g \in Seq(Frame) /\ Len(g) = n + 1 /\ g[n + 1] = k /\ \A i \in 1 .. n : g[i] = fs[i]
    BY <1>1, <1>2, AppendProperties
<1>4. DOMAIN g = 1 .. n + 1
    BY <1>2, <1>3, StackFacts
<1> HIDE DEF g
<1>5. n + 1 \in DOMAIN g /\ \A i \in 1 .. n : i \in 1 .. Len(fs)
    BY <1>2, <1>4
<1>6. Balanced(g, s)
    BY <1>3, <1>5, ClosingIsBalanced
<1>7. \A q \in 1 .. n + 2 : NoCloseBelow(g, q) => q \in 1 .. n + 1
    <2> SUFFICES ASSUME NEW q \in 1 .. n + 2, NoCloseBelow(g, q)
                 PROVE  q <= n + 1
        BY <1>2
    <2>1. ~(n + 1 < q)
        BY <1>3, <1>5 DEF NoCloseBelow
    <2> QED
        BY <1>2, <2>1
<1>8. \A q \in 1 .. n + 1 : NoCloseBelow(g, q) => NoCloseBelow(fs, q) /\ q \in 1 .. Len(fs) + 1
    BY <1>2, <1>3, <1>4, <1>5 DEF NoCloseBelow
<1>9. Rising(g, s)
    <2> SUFFICES ASSUME NEW q \in 1 .. n + 2, NoCloseBelow(g, q)
                 PROVE  \A i, j \in DOMAIN s : i < j /\ s[j] <= q => s[i] <= s[j]
        BY <1>2, <1>3 DEF Rising
    <2>1. NoCloseBelow(fs, q) /\ q \in 1 .. Len(fs) + 1
        BY <1>7, <1>8
    <2> QED
        BY <2>1 DEF Owed, Rising
<1>10. GcClean(g, s)
    <2> SUFFICES ASSUME NEW p \in 1 .. n + 1, g[p] = "gc", NoCloseBelow(g, p)
                 PROVE  \A i \in DOMAIN s : s[i] <= p
        BY <1>4 DEF GcClean
    <2>1. p \in 1 .. n
        BY <1>1, <1>2, <1>3
    <2>2. p \in DOMAIN fs /\ fs[p] = "gc" /\ NoCloseBelow(fs, p)
        BY <1>2, <1>3, <1>5, <1>8, <2>1
    <2> QED
        BY <2>2 DEF Owed, GcClean
<1> QED
    BY <1>6, <1>9, <1>10 DEF Owed, g

\* A variable more, of the function that runs.
LEMMA OwedRegister ==
    ASSUME NEW fs \in Seq(Frame), NEW s \in Seq(Nat), Owed(fs, s), Without(fs, {"gc"})
    PROVE  Owed(fs, Append(s, Len(fs) + 1))
<1> DEFINE n == Len(fs) + 1
           r == Append(s, n)
<1>1. n \in Nat /\ n >= 1 /\ DOMAIN fs = 1 .. n - 1 /\ n - 1 = Len(fs)
    BY StackFacts
<1> HIDE DEF n
<1>2. /\ DOMAIN r = 1 .. Len(s) + 1 /\ r[Len(s) + 1] = n /\ \A i \in 1 .. Len(s) : r[i] = s[i]
      /\ Len(s) \in Nat /\ DOMAIN s = 1 .. Len(s)
    BY <1>1, AppendTbc
<1> HIDE DEF r
<1>3. \A i \in DOMAIN r : (i \in DOMAIN s /\ r[i] = s[i]) \/ (i = Len(s) + 1 /\ r[i] = n)
    BY <1>2
<1>4. \A i \in DOMAIN r : r[i] >= 1
    BY <1>1, <1>3 DEF Owed
<1>5. Balanced(fs, r)
    BY <1>1, <1>3 DEF Owed, Balanced, n
<1>6. GcClean(fs, r)
    BY DEF Without, GcClean
<1>7. Rising(fs, r)
    <2> SUFFICES ASSUME NEW q \in 1 .. n, NoCloseBelow(fs, q),
                        NEW i \in DOMAIN r, NEW j \in DOMAIN r, i < j, r[j] <= q
                 PROVE  r[i] <= r[j]
        BY DEF Rising, n
    <2>1. CASE j \in DOMAIN s
        <3>1. i \in DOMAIN s /\ r[i] = s[i] /\ r[j] = s[j]
            BY <1>2, <2>1
        <3>2. \A x, y \in DOMAIN s : x < y /\ s[y] <= q => s[x] <= s[y]
            BY DEF Owed, Rising, n
        <3> QED
            BY <2>1, <3>1, <3>2
    <2>2. CASE j = Len(s) + 1
        <3>1. r[j] = n /\ q = n /\ i \in DOMAIN s /\ r[i] = s[i]
            BY <1>1, <1>2, <2>2
        <3>2. Without(fs, CloseFrames)
            BY <1>1, <3>1 DEF NoCloseBelow, Without
        <3> QED
            BY <3>1, <3>2 DEF Owed, Balanced, n
    <2> QED
        BY <1>3, <2>1, <2>2
<1> QED
    BY <1>4, <1>5, <1>6, <1>7 DEF Owed, r, n

\* When the innermost pending variable is not above n frames, none is, if no
\* close frame is among them.
LEMMA LastBounds ==
    ASSUME NEW fs \in Seq(Frame), NEW s \in Seq(Nat), Owed(fs, s), NEW q \in 1 .. Len(fs) + 1,
           NoCloseBelow(fs, q), s # <<>> => Last(s) <= q
    PROVE  \A i \in DOMAIN s : s[i] <= q
<1> SUFFICES ASSUME NEW i \in DOMAIN s PROVE s[i] <= q
    OBVIOUS
<1>1. /\ Len(s) \in Nat /\ DOMAIN s = 1 .. Len(s) /\ s # <<>> /\ Last(s) = s[Len(s)]
      /\ Len(s) \in DOMAIN s /\ (i < Len(s) \/ i = Len(s))
    BY LenProperties, EmptySeq DEF Last
<1>2. s[i] \in Nat /\ s[Len(s)] \in Nat /\ q \in Nat
    BY <1>1, ElementOfSeq, StackFacts
<1>3. i < Len(s) => s[i] <= s[Len(s)]
    BY <1>1 DEF Owed, Rising
<1> QED
    BY <1>1, <1>2, <1>3

\* A runCloses that has nothing above level 0 to close has nothing to close.
LEMMA NothingLeft ==
    ASSUME NEW fs \in Seq(Frame), NEW s \in Seq(Nat), Owed(fs, s), s # <<>> => Last(s) <= 0
    PROVE  s = <<>>
<1> SUFFICES ASSUME s # <<>> PROVE FALSE
    OBVIOUS
<1>1. Len(s) \in DOMAIN s /\ Last(s) = s[Len(s)]
    BY LenProperties, EmptySeq DEF Last
<1>2. s[Len(s)] \in Nat /\ s[Len(s)] >= 1
    BY <1>1, ElementOfSeq, LenProperties DEF Owed
<1> QED
    BY <1>1, <1>2

\* A handler's error leaves a close frame where one was.
LEMMA OwedHandlerError ==
    ASSUME NEW fs \in Seq(Frame), NEW s \in Seq(Nat), Owed(fs, s), fs # <<>>
    PROVE  Owed(AfterHandlerError(fs), s)
<1>1. CASE Last(fs) # "scope"
    BY <1>1 DEF AfterHandlerError
<1>2. CASE Last(fs) = "scope"
    <2>1. Front(fs) = SubSeq(fs, 1, Len(fs) - 1) /\ Len(fs) - 1 \in 0 .. Len(fs)
        BY FrontCuts
    <2>2. "rethrow" \in CloseFrames
        BY DEF CloseFrames
    <2>3. Owed(Append(SubSeq(fs, 1, Len(fs) - 1), "rethrow"), s)
        BY <2>1, <2>2, OwedCutClose
    <2> QED
        BY <1>2, <2>1, <2>3 DEF AfterHandlerError
<1> QED
    BY <1>1, <1>2

NoPanic == \A t \in Threads : at[t] # "panic"

\* A coroutine that has ended, or is about to say so, owes nothing.
Finished(t) == at[t] \in {"sendReturn", "sendError"} \/ status[t] \in {"none", "dead"}

TbcInv ==
    /\ NoPanic
    /\ \A t \in Threads : Owed(frames[t], tbc[t])
    /\ \A t \in Threads : Finished(t) => tbc[t] = <<>>

\* A step that changes the stack of t, and the place and the status of t and d.
LEMMA TbcOfOne ==
    ASSUME TbcInv, NEW t \in Threads, NEW d \in Threads,
           \A x \in Threads : x # t => frames'[x] = frames[x] /\ tbc'[x] = tbc[x],
           \A x \in Threads : x \notin {t, d} => at'[x] = at[x] /\ status'[x] = status[x],
           d # t => at'[d] # "panic" /\ ~Finished(d)',
           at'[t] # "panic", Owed(frames'[t], tbc'[t]), Finished(t)' => tbc'[t] = <<>>
    PROVE  TbcInv'
<1>1. ASSUME NEW x \in Threads
      PROVE  at'[x] # "panic" /\ Owed(frames'[x], tbc'[x]) /\ (Finished(x)' => tbc'[x] = <<>>)
    <2>1. at[x] # "panic" /\ Owed(frames[x], tbc[x]) /\ (Finished(x) => tbc[x] = <<>>)
        BY DEF TbcInv, NoPanic
    <2>2. CASE x = t
        BY <2>2
    <2>3. CASE x # t /\ x = d
        BY <2>1, <2>3
    <2>4. CASE x \notin {t, d}
        <3>1. Finished(x)' <=> Finished(x)
            BY <2>4 DEF Finished
        <3> QED
            BY <2>1, <2>4, <3>1
    <2> QED
        BY <2>2, <2>3, <2>4
<1> QED
    BY <1>1 DEF TbcInv, NoPanic

\* A turn of runCloses pops the variable whose handler it runs.
LEMMA OwedCallClose ==
    ASSUME TypeOK, NEW t \in Threads, NEW fs \in Seq(Frame), fs # <<>>, Owed(fs, tbc[t]),
           CallClose(t, fs)
    PROVE  Owed(frames'[t], tbc'[t])
<1>1. tbc[t] \in Seq(Nat) /\ Front(tbc[t]) \in Seq(Nat) /\ tbc'[t] = Front(tbc[t])
    <2>1. tbc[t] \in Seq(Nat) /\ tbc' = [tbc EXCEPT ![t] = Front(@)] /\ tbc \in [Threads -> Seq(Nat)]
        BY DEF TypeOK, CallClose
    <2> QED
        BY <2>1, FrontOfTbc
<1>2. Owed(fs, Front(tbc[t]))
    BY <1>1, OwedFront
<1>3. frames'[t] = Append(fs, "handler") \/ frames'[t] = AfterHandlerError(fs)
    BY DEF CallClose, TypeOK
<1>4. "handler" \in Frame
    BY DEF Frame, CallFrames
<1>5. Owed(Append(fs, "handler"), Front(tbc[t]))
    BY <1>1, <1>2, <1>4, OwedPush
<1>6. Owed(AfterHandlerError(fs), Front(tbc[t]))
    BY <1>1, <1>2, OwedHandlerError
<1> QED
    BY <1>1, <1>3, <1>5, <1>6

\* The innermost frame is popped; what is pending is not above it.
LEMMA OwedPop ==
    ASSUME NEW fs \in Seq(Frame), fs # <<>>, NEW s \in Seq(Nat), Owed(fs, s),
           \/ s # <<>> => Last(s) <= Len(fs)
           \/ fs[Len(fs)] \notin CloseFrames /\ Last(s) # Len(fs) + 1
    PROVE  Owed(Front(fs), s)
<1> DEFINE n == Len(fs) - 1
           g == SubSeq(fs, 1, n)
<1>1. /\ Front(fs) = g /\ n \in 0 .. Len(fs) /\ n \in Nat /\ DOMAIN fs = 1 .. Len(fs)
      /\ n + 1 = Len(fs)
    BY FrontCuts, StackFacts
<1>2. Len(g) = n /\ g \in Seq(Frame) /\ \A i \in 1 .. n : g[i] = fs[i]
    BY <1>1, PrefixType
<1>3. DOMAIN g = 1 .. n
    BY <1>2, StackFacts
<1> HIDE DEF n, g
<1>4. Balanced(g, s)
    <2> SUFFICES ASSUME Without(g, CloseFrames)
                 PROVE  \A i \in DOMAIN s : s[i] <= n + 1
        BY <1>2 DEF Balanced
    <2>1. NoCloseBelow(fs, n + 1) /\ n + 1 \in 1 .. Len(fs) + 1
        BY <1>1, <1>2, <1>3 DEF Without, NoCloseBelow
    <2>2. s # <<>> => Last(s) <= n + 1
        <3>1. CASE fs[Len(fs)] \notin CloseFrames /\ Last(s) # Len(fs) + 1
            <4>1. Without(fs, CloseFrames)
                BY <1>1, <2>1, <3>1 DEF NoCloseBelow, Without
            <4>2. s # <<>> => Len(s) \in DOMAIN s /\ Last(s) = s[Len(s)] /\ s[Len(s)] \in Nat
                BY LenProperties, EmptySeq, ElementOfSeq DEF Last
            <4>3. s # <<>> => Last(s) <= Len(fs) + 1
                BY <4>1, <4>2 DEF Owed, Balanced
            <4> QED
                BY <1>1, <3>1, <4>2, <4>3
        <3> QED
            BY <1>1, <3>1
    <2> QED
        BY <2>1, <2>2, LastBounds
<1> QED
    BY <1>1, <1>4, OwedCut DEF g

\* A caught error cuts the stack back.
LEMMA OwedCatch ==
    ASSUME NEW fs \in Seq(Frame), Stacked(fs), NEW s \in Seq(Nat), Owed(fs, s), NEW i \in DOMAIN fs
    PROVE  LET below == SubSeq(fs, 1, i - 1) IN
           /\ fs[i] = "pcall" => Owed(Append(below, "unwind"), s)
           /\ fs[i] = "handler" => Owed(AfterHandlerError(below), s)
           /\ fs[i] = "gc" => Owed(below, s)
<1> DEFINE n == i - 1
           below == SubSeq(fs, 1, n)
<1>1. /\ Len(fs) \in Nat /\ DOMAIN fs = 1 .. Len(fs) /\ n \in 0 .. Len(fs) /\ n \in Nat /\ n + 1 = i
      /\ i > 1 => n \in 1 .. n
    BY StackFacts
<1> HIDE DEF n
<1>2. below \in Seq(Frame) /\ Len(below) = n /\ \A j \in 1 .. n : below[j] = fs[j]
    BY <1>1, PrefixType
<1>3. DOMAIN below = 1 .. n /\ (below = <<>> <=> n = 0)
    BY <1>2, StackFacts
<1> HIDE DEF below
<1>4. fs[i] = "pcall" => Owed(Append(below, "unwind"), s)
    <2>1. "unwind" \in CloseFrames
        BY DEF CloseFrames
    <2> QED
        BY <1>1, <2>1, OwedCutClose DEF below
<1>5. fs[i] = "handler" => Owed(AfterHandlerError(below), s)
    <2> SUFFICES ASSUME fs[i] = "handler" PROVE Owed(AfterHandlerError(below), s)
        OBVIOUS
    <2>1. i > 1 /\ fs[i - 1] \in CloseFrames
        BY DEF Stacked
    <2>2. n \in DOMAIN below /\ below[n] \in CloseFrames /\ below # <<>>
        BY <1>1, <1>2, <1>3, <2>1
    <2>3. Balanced(below, s)
        BY <2>2, ClosingIsBalanced
    <2>4. Owed(below, s)
        BY <1>1, <2>3, OwedCut DEF below
    <2> QED
        BY <1>2, <2>2, <2>4, OwedHandlerError
<1>6. fs[i] = "gc" => Owed(below, s)
    <2> SUFFICES ASSUME fs[i] = "gc" PROVE Owed(below, s)
        OBVIOUS
    <2>1. Without(below, CloseFrames) => NoCloseBelow(fs, i)
        BY <1>1, <1>2, <1>3 DEF Without, NoCloseBelow
    <2>2. Balanced(below, s)
        BY <1>1, <1>2, <2>1 DEF Balanced, Owed, GcClean
    <2> QED
        BY <1>1, <2>2, OwedCut DEF below
<1> QED
    BY <1>4, <1>5, <1>6 DEF n, below

\* Steps of one thread.
LEMMA TbcLocal ==
    ASSUME BaseInv, TbcInv, NEW t \in Threads, Local(t),
           "goPanic" \notin Behaviours, "gcTbc" \notin Behaviours
    PROVE  TbcInv'
<1> DEFINE fs == frames[t]
           s == tbc[t]
<1>1. /\ TypeOK /\ FrameInv /\ at[t] # "panic" /\ Owed(fs, s) /\ StatusWords
      /\ frames \in [Threads -> Seq(Frame)] /\ tbc \in [Threads -> Seq(Nat)]
      /\ at \in [Threads -> Place] /\ fs \in Seq(Frame) /\ s \in Seq(Nat)
      /\ Stacked(fs) /\ Topped(fs, at[t])
    BY DEF BaseInv, CoInv, ShapeInv, FrameInv, ChainInv, TbcInv, NoPanic, TypeOK
<1>2. PICK g, p : StackMove(t, g, p)
    BY <1>1, LocalMoves
<1>3. /\ \A x \in Threads : x # t => frames'[x] = frames[x] /\ at'[x] = at[x]
      /\ at'[t] \in Executing
    BY <1>1, <1>2 DEF StackMove
<1>4. /\ status' = status /\ at[t] \in Executing
      /\ \A x \in Threads : x # t => tbc'[x] = tbc[x]
    BY <1>1 DEF Local, Enter, PromotionSwallowed, RegisterTbc, Raise, GoPanic, ScopeExit,
        RunClose, CallClose, EndClose, Return, Catch, CatchPanic, goStack, Executing
<1>5. at'[t] # "panic"
    BY <1>1 DEF Local, Enter, PromotionSwallowed, RegisterTbc, Raise, GoPanic, ScopeExit,
        RunClose, CallClose, EndClose, Return, Catch, CatchPanic
<1>6. ~Finished(t)'
    <2>1. status[t] = "running"
        BY <1>1, <1>4 DEF StatusWords, Active
    <2>2. at'[t] \notin {"sendReturn", "sendError"}
        BY <1>3 DEF Executing
    <2> QED
        BY <1>4, <2>1, <2>2 DEF Finished
<1>7. Owed(frames'[t], tbc'[t])
    <2>1. ASSUME NEW k \in CallFrames, Enter(t, k)
          PROVE  Owed(frames'[t], tbc'[t])
        <3>1. frames'[t] = Append(fs, k) /\ tbc'[t] = s /\ k \in Frame
            BY <1>1, <2>1 DEF Enter, Frame
        <3> QED
            BY <1>1, <3>1, OwedPush
    <2>2. CASE PromotionSwallowed(t) \/ Raise(t)
        BY <1>1, <2>2 DEF PromotionSwallowed, Raise, goStack
    <2>3. CASE RegisterTbc(t)
        <3>1. frames'[t] = fs /\ tbc'[t] = Append(s, Len(fs) + 1) /\ Without(fs, {"gc"})
            BY <1>1, <2>3 DEF RegisterTbc
        <3> QED
            BY <1>1, <3>1, OwedRegister
    <2>4. CASE ScopeExit(t)
        <3>1. "scope" \in Frame /\ CallClose(t, Append(fs, "scope"))
            BY <2>4 DEF ScopeExit, Frame, CloseFrames
        <3>2. Append(fs, "scope") \in Seq(Frame) /\ Append(fs, "scope") # <<>>
            <4>1. Append(fs, "scope") \in Seq(Frame) /\ Len(Append(fs, "scope")) = Len(fs) + 1
                BY <1>1, <3>1, AppendProperties
            <4>2. Len(fs) \in Nat /\ Len(Append(fs, "scope")) # 0
                BY <1>1, <4>1, StackFacts
            <4> QED
                BY <4>1, <4>2
        <3>3. Owed(Append(fs, "scope"), s)
            BY <1>1, <3>1, OwedPush
        <3> QED
            BY <1>1, <3>1, <3>2, <3>3, OwedCallClose
    <2>5. CASE RunClose(t)
        BY <1>1, <2>5, OwedCallClose DEF RunClose, Topped
    <2>6. CASE EndClose(t)
        <3>1. /\ frames'[t] = Front(fs) /\ tbc'[t] = s /\ fs # <<>>
              /\ Last(fs) \in {"scope", "rethrow", "unwind"}
              /\ ~Pending(t) \/ Last(s) = Len(fs)
            BY <1>1, <2>6 DEF EndClose, Topped
        <3>2. /\ CloseLevel(fs) = IF Last(fs) = "unwind" THEN Len(fs) ELSE Len(fs) - 1
              /\ Len(fs) \in Nat
            BY <1>1, <3>1, StackFacts DEF CloseLevel
        <3>3. s # <<>> => Last(s) \in Nat
            BY <1>1, LenProperties, EmptySeq, ElementOfSeq DEF Last
        <3>4. s # <<>> => Last(s) <= Len(fs)
            BY <3>1, <3>2, <3>3 DEF Pending
        <3> QED
            BY <1>1, <3>1, <3>4, OwedPop
    <2>7. CASE Return(t)
        <3>1. /\ frames'[t] = Front(fs) /\ tbc'[t] = s /\ fs # <<>> /\ at[t] = "lua"
              /\ s = <<>> \/ Last(s) # Len(fs) + 1
            BY <1>1, <2>7 DEF Return, OwnsTbc
        <3>2. fs[Len(fs)] \notin CloseFrames
            BY <1>1, <3>1 DEF Topped
        <3> QED
            BY <1>1, <3>1, <3>2, OwedPop
    <2>8. CASE Catch(t)
        <3>1. tbc'[t] = s
            BY <1>1, <2>8 DEF Catch
        <3>2. PICK i \in DOMAIN fs :
                \/ fs[i] = "pcall" /\ frames'[t] = Append(SubSeq(fs, 1, i - 1), "unwind")
                \/ fs[i] = "handler" /\ frames'[t] = AfterHandlerError(SubSeq(fs, 1, i - 1))
                \/ fs[i] = "gc" /\ frames'[t] = SubSeq(fs, 1, i - 1)
            <4>1. PICK i \in DOMAIN fs :
                    \/ fs[i] = "pcall" /\ Unwind(t, i, Append(SubSeq(fs, 1, i - 1), "unwind"))
                    \/ fs[i] = "handler" /\ Unwind(t, i, AfterHandlerError(SubSeq(fs, 1, i - 1)))
                    \/ fs[i] = "gc" /\ Unwind(t, i, SubSeq(fs, 1, i - 1))
                BY <2>8 DEF Catch
            <4> HIDE DEF fs
            <4>2. \A h : Unwind(t, i, h) => frames'[t] = h
                BY <1>1 DEF Unwind
            <4> QED
                BY <4>1, <4>2
        <3> HIDE DEF fs
        <3> QED
            BY <1>1, <3>1, <3>2, OwedCatch
    <2>9. ~GoPanic(t) /\ ~CatchPanic(t)
        BY <1>1 DEF GoPanic, CatchPanic
    <2> QED
        BY <2>1, <2>2, <2>3, <2>4, <2>5, <2>6, <2>7, <2>8, <2>9 DEF Local
<1> QED
    BY <1>3, <1>4, <1>5, <1>6, <1>7, TbcOfOne

\* A close frame that starts a new stack: death and coroutine.close.
LEMMA OwedFresh ==
    ASSUME NEW fs \in Seq(Frame), NEW s \in Seq(Nat), Owed(fs, s), NEW k \in {"death", "coclose"}
    PROVE  Owed(<<k>>, s)
<1>1. SubSeq(fs, 1, 0) = <<>> /\ 0 \in 0 .. Len(fs) /\ k \in CloseFrames
    BY PrefixType, StackFacts DEF CloseFrames
<1>2. Append(<<>>, k) = <<k>>
    OBVIOUS
<1> QED
    BY <1>1, <1>2, OwedCutClose

\* Resuming and closing.
LEMMA TbcCalls ==
    ASSUME BaseInv, TbcInv, NEW t \in Threads, NEW co \in Coroutines,
           \/ Create(t, co) \/ ResumeSync(t, co) \/ ResumePromoted(t, co)
           \/ Handoff(t, co) \/ RecvCoMsg(t, co) \/ Close(t, co)
    PROVE  TbcInv'
<1>1. /\ co \in Threads /\ Owed(frames[co], tbc[co]) /\ at[co] # "panic"
      /\ Finished(co) => tbc[co] = <<>>
      /\ frames[co] \in Seq(Frame) /\ tbc[co] \in Seq(Nat)
      /\ at[t] = "lua" => status[t] = "running"
    BY DEF Threads, TbcInv, NoPanic, BaseInv, TypeOK, CoInv, ChainInv, StatusWords, Active, Executing
<1>2. /\ status \in [Threads -> {"none", "suspended", "running", "normal", "dead"}]
      /\ at \in [Threads -> Place] /\ frames \in [Threads -> Seq(Frame)]
    BY DEF BaseInv, TypeOK
<1>3. CASE Create(t, co)
    <2>1. /\ status' = [status EXCEPT ![co] = "suspended"] /\ UNCHANGED <<at, frames, tbc>>
        BY <1>3 DEF Create, goStack
    <2> QED
        BY <1>1, <1>2, <2>1, TbcOfOne DEF Finished
<1>4. CASE ResumeSync(t, co) \/ ResumePromoted(t, co)
    <2>1. /\ status' = [status EXCEPT ![co] = "running", ![t] = "normal"] /\ UNCHANGED <<frames, tbc>>
          /\ at[t] = "lua" /\ status[co] = "suspended"
          /\ \/ at' = [at EXCEPT ![t] = "inResume", ![co] = "lua"]
             \/ at' = [at EXCEPT ![t] = "sendResume"]
        BY <1>4 DEF ResumeSync, ResumePromoted, StartResume, Handover, Resumable
    <2>2. t # co
        BY <1>1, <2>1
    <2>3. /\ at'[t] \in {"inResume", "sendResume"} /\ status'[t] = "normal" /\ status'[co] = "running"
          /\ at'[co] \in {"lua", at[co]}
          /\ \A x \in Threads : x \notin {t, co} => at'[x] = at[x] /\ status'[x] = status[x]
        BY <1>1, <1>2, <2>1, <2>2
    <2>4. Finished(co)' => Finished(co)
        BY <2>3 DEF Finished
    <2>5. at'[t] # "panic" /\ ~Finished(t)' /\ at'[co] # "panic"
        BY <1>1, <2>3 DEF Finished
    <2>6. /\ \A x \in Threads : frames'[x] = frames[x] /\ tbc'[x] = tbc[x]
          /\ Owed(frames'[co], tbc'[co]) /\ (Finished(co)' => tbc'[co] = <<>>)
        BY <1>1, <2>1, <2>4
    <2> QED
        BY <1>1, <2>3, <2>5, <2>6, TbcOfOne
<1>5. CASE Handoff(t, co)
    <2>1. /\ at' = [at EXCEPT ![t] = "recvYield", ![co] = "lua"] /\ UNCHANGED <<status, frames, tbc>>
          /\ at[t] = "sendResume" /\ at[co] = "recv" /\ callee[t] = co
        BY <1>5 DEF Handoff, goStack
    <2>2. t # co /\ status[t] = "normal"
        BY <1>1, <2>1 DEF BaseInv, CoInv, ChainInv, CalleeAgrees, Agree
    <2>3. /\ at'[t] = "recvYield" /\ at'[co] = "lua" /\ status'[t] = "normal" /\ status'[co] = status[co]
          /\ \A x \in Threads : x \notin {t, co} => at'[x] = at[x] /\ status'[x] = status[x]
        BY <1>1, <1>2, <2>1, <2>2
    <2>4. (Finished(co)' => Finished(co)) /\ ~Finished(t)'
        BY <2>3 DEF Finished
    <2>5. /\ \A x \in Threads : frames'[x] = frames[x] /\ tbc'[x] = tbc[x]
          /\ Owed(frames'[co], tbc'[co]) /\ (Finished(co)' => tbc'[co] = <<>>)
        BY <1>1, <2>1, <2>4
    <2>6. at'[t] # "panic" /\ at'[co] # "panic"
        BY <2>3
    <2> QED
        BY <1>1, <2>3, <2>4, <2>5, <2>6, TbcOfOne
<1>6. CASE RecvCoMsg(t, co)
    <2>1. /\ at' = [at EXCEPT ![t] = "lua", ![co] = AfterMessage(co)] /\ UNCHANGED <<frames, tbc>>
          /\ status' = [status EXCEPT ![t] = "running", ![co] = MessageStatus(co)]
          /\ at[t] = "recvYield" /\ at[co] \in Sending
        BY <1>6 DEF RecvCoMsg, goStack
    <2>2. t # co
        BY <2>1 DEF Sending
    <2>3. /\ at'[t] = "lua" /\ status'[t] = "running" /\ status'[co] = MessageStatus(co)
          /\ at'[co] \in {"recv", "gone"}
          /\ \A x \in Threads : x \notin {t, co} => at'[x] = at[x] /\ status'[x] = status[x]
        BY <1>1, <1>2, <2>1, <2>2 DEF AfterMessage
    <2>4. Finished(co)' => Finished(co)
        BY <2>1, <2>3 DEF Finished, MessageStatus, Sending
    <2>5. ~Finished(t)'
        BY <2>3 DEF Finished
    <2>6. /\ \A x \in Threads : frames'[x] = frames[x] /\ tbc'[x] = tbc[x]
          /\ Owed(frames'[co], tbc'[co]) /\ (Finished(co)' => tbc'[co] = <<>>)
        BY <1>1, <2>1, <2>4
    <2>7. at'[t] # "panic" /\ at'[co] # "panic"
        BY <2>3
    <2> QED
        BY <1>1, <2>3, <2>5, <2>6, <2>7, TbcOfOne
<1>7. CASE Close(t, co)
    <2>1. at[t] = "lua" /\ status[co] \in {"suspended", "dead"} /\ t # co /\ tbc' = tbc
        BY <1>1, <1>7 DEF Close
    <2>2. CASE tbc[co] # <<>>
        <3>1. /\ status' = [status EXCEPT ![co] = "running"] /\ frames' = [frames EXCEPT ![co] = <<"coclose">>]
              /\ at' = [at EXCEPT ![t] = "inClose", ![co] = "closing"]
            BY <1>7, <2>2 DEF Close
        <3>2. Owed(<<"coclose">>, tbc[co])
            BY <1>1, OwedFresh
        <3>3. /\ at'[t] = "inClose" /\ status'[t] = "running" /\ at'[co] = "closing"
              /\ status'[co] = "running" /\ frames'[co] = <<"coclose">>
              /\ \A x \in Threads : x \notin {t, co} => at'[x] = at[x] /\ status'[x] = status[x]
              /\ \A x \in Threads : x # co => frames'[x] = frames[x]
            BY <1>1, <1>2, <2>1, <3>1
        <3>4. ~Finished(t)' /\ ~Finished(co)'
            BY <3>3 DEF Finished
        <3> QED
            BY <1>1, <2>1, <3>2, <3>3, <3>4, TbcOfOne
    <2>3. CASE tbc[co] = <<>>
        <3>1. /\ status' = [status EXCEPT ![co] = "dead"] /\ frames' = [frames EXCEPT ![co] = <<>>]
              /\ at' = at
            BY <1>7, <2>3 DEF Close
        <3>2. /\ frames'[co] = <<>> /\ tbc'[co] = <<>>
              /\ \A x \in Threads : x # co => frames'[x] = frames[x] /\ status'[x] = status[x]
            BY <1>1, <1>2, <2>1, <2>3, <3>1
        <3>3. Owed(<<>>, <<>>)
            BY OwedNothing
        <3> QED
            BY <1>1, <2>1, <3>1, <3>2, <3>3, TbcOfOne
    <2> QED
        BY <2>2, <2>3
<1> QED
    BY <1>3, <1>4, <1>5, <1>6, <1>7

\* A coroutine ends, yields or is promoted.
LEMMA TbcEnds ==
    ASSUME BaseInv, TbcInv, NEW t \in Coroutines,
           \/ BodyReturnPromoted(t) \/ YieldPromoted(t) \/ DiePromoted(t) \/ EndDeathPromoted(t)
           \/ \E d \in Threads : \/ Promote(t, d) \/ BodyReturnSync(t, d) \/ YieldSync(t, d)
                                 \/ DieSync(t, d) \/ EndDeathSync(t, d) \/ EndCoClose(t, d)
    PROVE  TbcInv'
<1>1. /\ t \in Threads /\ Owed(frames[t], tbc[t]) /\ at[t] # "panic"
      /\ Finished(t) => tbc[t] = <<>>
      /\ frames[t] \in Seq(Frame) /\ tbc[t] \in Seq(Nat)
      /\ status \in [Threads -> {"none", "suspended", "running", "normal", "dead"}]
      /\ at \in [Threads -> Place] /\ frames \in [Threads -> Seq(Frame)]
    BY DEF Threads, TbcInv, NoPanic, BaseInv, TypeOK
<1>2. at[t] = "lua" /\ frames[t] = <<>> /\ ~OwnsTbc(t) => tbc[t] = <<>>
    <2> SUFFICES ASSUME frames[t] = <<>>, ~OwnsTbc(t) PROVE tbc[t] = <<>>
        OBVIOUS
    <2>1. Len(frames[t]) = 0 /\ Without(frames[t], CloseFrames)
        BY DEF Without
    <2>2. tbc[t] # <<>> => Len(tbc[t]) \in DOMAIN tbc[t] /\ Last(tbc[t]) = tbc[t][Len(tbc[t])]
                           /\ Last(tbc[t]) \in Nat
        BY <1>1, LenProperties, EmptySeq, ElementOfSeq DEF Last
    <2>3. tbc[t] # <<>> => Last(tbc[t]) <= 0
        BY <1>1, <2>1, <2>2 DEF OwnsTbc, Owed, Balanced
    <2> QED
        BY <1>1, <2>3, NothingLeft
<1>3. at[t] = "closing" /\ Last(frames[t]) \in {"death", "coclose"} /\ ~Pending(t) => tbc[t] = <<>>
    <2> SUFFICES ASSUME Last(frames[t]) \in {"death", "coclose"}, ~Pending(t) PROVE tbc[t] = <<>>
        OBVIOUS
    <2>1. CloseLevel(frames[t]) = 0
        BY DEF CloseLevel
    <2>2. tbc[t] # <<>> => Last(tbc[t]) \in Nat
        BY <1>1, LenProperties, EmptySeq, ElementOfSeq DEF Last
    <2>3. tbc[t] # <<>> => Last(tbc[t]) <= 0
        BY <2>1, <2>2 DEF Pending
    <2> QED
        BY <1>1, <2>3, NothingLeft
<1>4. Owed(<<"death">>, tbc[t]) /\ Owed(<<>>, <<>>) /\ <<"death">> \in Seq(Frame)
    BY <1>1, OwedFresh, OwedNothing, SmallStacks
<1>5. ASSUME NEW d \in Threads,
             \/ Promote(t, d) \/ BodyReturnSync(t, d) \/ YieldSync(t, d)
             \/ DieSync(t, d) \/ EndDeathSync(t, d) \/ EndCoClose(t, d)
      PROVE  TbcInv'
    <2>1. callee[d] = t /\ at[t] \in Executing /\ tbc' = tbc
        BY <1>5 DEF Promote, BodyReturnSync, YieldSync, MayYield, DieSync, Uncaught, EndDeathSync,
            EndCoClose, Executing, goStack
    <2>2. /\ d # t /\ at[d] \in Waiting /\ status[d] \in {"running", "normal"}
          /\ status[t] = "running"
        <3>1. Agree(d, t) /\ at[d] \in Waiting /\ at[t] \notin Waiting /\ status[t] = "running"
            BY <1>1, <2>1, ThreadAssumption, PlaceKinds
            DEF BaseInv, CoInv, ChainInv, CalleeAgrees, Callers, StatusWords, Threads
        <3> QED
            BY <3>1 DEF Agree, Waiting, Driving
    <2>3. at[d] # "panic" /\ at[d] \notin {"sendReturn", "sendError"}
        BY <2>2 DEF Waiting, Driving
    <2>4. CASE Promote(t, d)
        <3>1. at' = [at EXCEPT ![d] = "recvYield"] /\ UNCHANGED <<status, frames>> /\ at[t] = "lua"
            BY <2>4 DEF Promote, goStack
        <3>2. /\ at'[d] = "recvYield" /\ at'[t] = "lua"
              /\ \A x \in Threads : x \notin {t, d} => at'[x] = at[x] /\ status'[x] = status[x]
              /\ \A x \in Threads : x # t => frames'[x] = frames[x] /\ tbc'[x] = tbc[x]
            BY <1>1, <2>1, <2>2, <3>1
        <3>3. ~Finished(d)' /\ ~Finished(t)' /\ Owed(frames'[t], tbc'[t])
            BY <1>1, <2>1, <2>2, <3>1, <3>2 DEF Finished
        <3> QED
            BY <1>1, <3>2, <3>3, TbcOfOne
    <2>5. CASE BodyReturnSync(t, d)
        <3>1. /\ at' = [at EXCEPT ![t] = "parked", ![d] = "lua"] /\ frames' = frames
              /\ status' = [status EXCEPT ![t] = "dead", ![d] = "running"]
              /\ tbc[t] = <<>>
            BY <1>2, <2>5 DEF BodyReturnSync, goStack
        <3>2. /\ at'[d] = "lua" /\ at'[t] = "parked" /\ status'[d] = "running"
              /\ \A x \in Threads : x \notin {t, d} => at'[x] = at[x] /\ status'[x] = status[x]
              /\ \A x \in Threads : x # t => frames'[x] = frames[x] /\ tbc'[x] = tbc[x]
            BY <1>1, <2>1, <2>2, <3>1
        <3>3. ~Finished(d)' /\ tbc'[t] = <<>> /\ Owed(frames'[t], tbc'[t])
            BY <1>1, <2>1, <3>1, <3>2 DEF Finished
        <3> QED
            BY <1>1, <3>2, <3>3, TbcOfOne
    <2>6. CASE YieldSync(t, d)
        <3>1. /\ at' = [at EXCEPT ![t] = "parked", ![d] = "lua"]
              /\ status' = [status EXCEPT ![t] = "suspended", ![d] = "running"]
              /\ frames' = [frames EXCEPT ![t] = <<>>] /\ coSyncActive[t] /\ ~NoYield(t)
            BY <2>6 DEF YieldSync, MayYield
        <3>2. /\ at'[d] = "lua" /\ at'[t] = "parked" /\ status'[d] = "running"
              /\ status'[t] = "suspended" /\ frames'[t] = <<>>
              /\ \A x \in Threads : x \notin {t, d} => at'[x] = at[x] /\ status'[x] = status[x]
              /\ \A x \in Threads : x # t => frames'[x] = frames[x] /\ tbc'[x] = tbc[x]
            BY <1>1, <2>1, <2>2, <3>1
        <3>3. frames[t] = <<>>
            BY <1>1, <3>1, FlatBeforeYield
        <3>4. ~Finished(d)' /\ ~Finished(t)' /\ Owed(frames'[t], tbc'[t])
            BY <1>1, <2>1, <3>2, <3>3 DEF Finished
        <3> QED
            BY <1>1, <3>2, <3>4, TbcOfOne
    <2>7. CASE DieSync(t, d)
        <3>1. /\ at' = [at EXCEPT ![t] = "closing"] /\ status' = [status EXCEPT ![d] = "running"]
              /\ frames' = [frames EXCEPT ![t] = <<"death">>]
            BY <2>7 DEF DieSync, Unwind
        <3>2. /\ at'[d] = at[d] /\ at'[t] = "closing" /\ status'[d] = "running"
              /\ status'[t] = "running" /\ frames'[t] = <<"death">>
              /\ \A x \in Threads : x \notin {t, d} => at'[x] = at[x] /\ status'[x] = status[x]
              /\ \A x \in Threads : x # t => frames'[x] = frames[x] /\ tbc'[x] = tbc[x]
            BY <1>1, <2>1, <2>2, <3>1
        <3>3. ~Finished(d)' /\ ~Finished(t)' /\ Owed(frames'[t], tbc'[t])
            BY <1>1, <1>4, <2>1, <2>3, <3>2 DEF Finished
        <3>4. at'[d] # "panic" /\ at'[t] # "panic"
            BY <2>3, <3>2
        <3> QED
            BY <1>1, <3>2, <3>3, <3>4, TbcOfOne
    <2>8. CASE EndDeathSync(t, d) \/ EndCoClose(t, d)
        <3>1. /\ at' = [at EXCEPT ![t] = "parked", ![d] = "lua"] /\ frames' = [frames EXCEPT ![t] = <<>>]
              /\ status' = [status EXCEPT ![t] = "dead"]
              /\ tbc[t] = <<>>
            BY <1>3, <2>8 DEF EndDeathSync, EndCoClose
        <3>2. /\ at'[d] = "lua" /\ at'[t] = "parked" /\ status'[d] = status[d] /\ frames'[t] = <<>>
              /\ \A x \in Threads : x \notin {t, d} => at'[x] = at[x] /\ status'[x] = status[x]
              /\ \A x \in Threads : x # t => frames'[x] = frames[x] /\ tbc'[x] = tbc[x]
            BY <1>1, <2>1, <2>2, <3>1
        <3>3. ~Finished(d)' /\ tbc'[t] = <<>> /\ Owed(frames'[t], tbc'[t])
            BY <1>4, <2>1, <2>2, <3>1, <3>2 DEF Finished
        <3> QED
            BY <1>1, <3>2, <3>3, TbcOfOne
    <2> QED
        BY <1>5, <2>4, <2>5, <2>6, <2>7, <2>8
<1>6. ASSUME \/ BodyReturnPromoted(t) \/ YieldPromoted(t) \/ DiePromoted(t) \/ EndDeathPromoted(t)
      PROVE  TbcInv'
    <2>1. status[t] = "running"
        <3>1. at[t] \in Executing
            BY <1>6 DEF BodyReturnPromoted, YieldPromoted, MayYield, DiePromoted, Uncaught, EndDeathPromoted,
                Executing
        <3> QED
            BY <1>1, <3>1 DEF BaseInv, CoInv, ChainInv, StatusWords, Active
    <2>2. /\ status' = status /\ tbc' = tbc
          /\ \/ at' = [at EXCEPT ![t] = "sendReturn"] /\ frames' = frames /\ tbc[t] = <<>>
             \/ at' = [at EXCEPT ![t] = "sendYield"] /\ frames' = frames
             \/ at' = [at EXCEPT ![t] = "closing"] /\ frames' = [frames EXCEPT ![t] = <<"death">>]
             \/ /\ at' = [at EXCEPT ![t] = "sendError"] /\ frames' = [frames EXCEPT ![t] = <<>>]
                /\ tbc[t] = <<>>
        <3>1. CASE BodyReturnPromoted(t)
            BY <1>2, <3>1 DEF BodyReturnPromoted, goStack
        <3>2. CASE YieldPromoted(t)
            BY <3>2 DEF YieldPromoted, goStack
        <3>3. CASE DiePromoted(t)
            BY <3>3 DEF DiePromoted, Unwind
        <3>4. CASE EndDeathPromoted(t)
            BY <1>3, <3>4 DEF EndDeathPromoted
        <3> QED
            BY <1>6, <3>1, <3>2, <3>3, <3>4
    <2>3. /\ \A x \in Threads : x # t => /\ frames'[x] = frames[x] /\ tbc'[x] = tbc[x]
                                         /\ at'[x] = at[x] /\ status'[x] = status[x]
          /\ at'[t] # "panic" /\ Owed(frames'[t], tbc'[t])
          /\ at'[t] \in {"sendYield", "closing"} \/ tbc'[t] = <<>>
        BY <1>1, <1>4, <2>2
    <2>4. Finished(t)' => tbc'[t] = <<>>
        BY <2>1, <2>2, <2>3 DEF Finished
    <2> QED
        BY <1>1, <2>3, <2>4, TbcOfOne
<1> QED
    BY <1>5, <1>6

LEMMA TbcStep ==
    ASSUME BaseInv, TbcInv, [Next]_vars, "goPanic" \notin Behaviours, "gcTbc" \notin Behaviours
    PROVE  TbcInv'
<1>1. Main \in Threads /\ NoPanic
    BY DEF Threads, TbcInv
<1>2. CASE UNCHANGED vars
    BY <1>2 DEF TbcInv, NoPanic, Finished, vars, goStack
<1>3. CASE HostError
    <2>1. /\ frames' = [frames EXCEPT ![Main] = <<>>] /\ tbc' = [tbc EXCEPT ![Main] = <<>>]
          /\ at' = [at EXCEPT ![Main] = "lua"] /\ status' = status
        BY <1>3 DEF HostError, Unwind
    <2>2. /\ at \in [Threads -> Place] /\ frames \in [Threads -> Seq(Frame)]
          /\ tbc \in [Threads -> Seq(Nat)]
        BY DEF BaseInv, TypeOK
    <2>3. Owed(<<>>, <<>>)
        BY OwedNothing
    <2>4. /\ \A x \in Threads : x # Main => /\ frames'[x] = frames[x] /\ tbc'[x] = tbc[x]
                                            /\ at'[x] = at[x] /\ status'[x] = status[x]
          /\ at'[Main] = "lua" /\ frames'[Main] = <<>> /\ tbc'[Main] = <<>>
        BY <1>1, <2>1, <2>2
    <2> QED
        BY <1>1, <2>3, <2>4, TbcOfOne
<1>4. ~PanicHost /\ \A x \in Coroutines : ~PanicPromoted(x) /\ \A d \in Threads : ~PanicSync(x, d)
    BY <1>1 DEF PanicHost, PanicPromoted, PanicSync, PanicUncaught, NoPanic, Threads
<1>5. CASE Next
    <2>1. CASE \E x \in Threads : Local(x)
        BY <2>1, TbcLocal
    <2>2. CASE \E x \in Threads, co \in Coroutines :
                   \/ Create(x, co) \/ ResumeSync(x, co) \/ ResumePromoted(x, co)
                   \/ Handoff(x, co) \/ RecvCoMsg(x, co) \/ Close(x, co)
        BY <2>2, TbcCalls
    <2>3. CASE \E x \in Coroutines :
                   \/ BodyReturnPromoted(x) \/ YieldPromoted(x) \/ DiePromoted(x) \/ EndDeathPromoted(x)
                   \/ \E d \in Threads :
                        \/ Promote(x, d) \/ BodyReturnSync(x, d) \/ YieldSync(x, d)
                        \/ DieSync(x, d) \/ EndDeathSync(x, d) \/ EndCoClose(x, d)
        BY <2>3, TbcEnds
    <2> QED
        BY <1>3, <1>4, <1>5, <2>1, <2>2, <2>3 DEF Next, Local
<1> QED
    BY <1>2, <1>5

LEMMA TbcAlways ==
    ASSUME "goPanic" \notin Behaviours, "gcTbc" \notin Behaviours
    PROVE  Spec => []TbcInv
<1>1. Init => TbcInv
    <2> SUFFICES ASSUME Init PROVE TbcInv
        OBVIOUS
    <2>1. \A t \in Threads : frames[t] = <<>> /\ tbc[t] = <<>> /\ at[t] \in {"lua", "parked"}
        BY DEF Init
    <2> QED
        BY <2>1, OwedNothing DEF TbcInv, NoPanic
<1>2. BaseInv /\ TbcInv /\ [Next]_vars => TbcInv'
    BY TbcStep
<1> QED
    BY <1>1, <1>2, BaseAlways, PTL DEF Spec

\* What the invariants say of a dead coroutine.
LEMMA DeadOwesNothing ==
    ASSUME BaseInv, TbcInv
    PROVE  DeadIsSettled
<1> SUFFICES ASSUME NEW t \in Coroutines, status[t] = "dead"
             PROVE  tbc[t] = <<>> /\ ~coSyncActive[t] /\ at[t] \in Resting
                    /\ \A d \in Threads : callee[d] # t
    BY DEF DeadIsSettled
<1>1. t \in Threads /\ tbc[t] = <<>>
    BY DEF Threads, TbcInv, Finished
<1>2. at[t] \in Resting
    BY <1>1 DEF BaseInv, HandInv, IdleRests, Idle
<1>3. ~coSyncActive[t]
    BY <1>1, <1>2 DEF BaseInv, CoInv, ShapeInv, SyncInv, SyncAgrees
<1>4. \A d \in Threads : callee[d] # t
    BY <1>1 DEF BaseInv, CoInv, ChainInv, CalleeAgrees, Agree, Idle
<1> QED
    BY <1>1, <1>2, <1>3, <1>4

\* Unless a __gc metamethod declares a <close> variable or a registered Go
\* callback panics: a coroutine that is dead has run all its __close handlers
\* and nobody waits for it, and outside an unwinding no pending variable belongs
\* to a function that has left the stack (runCloses, closeTBC, drainFinalizers).
THEOREM HandlersAreRun ==
    ASSUME "goPanic" \notin Behaviours, "gcTbc" \notin Behaviours
    PROVE  Spec => []HandlersAreOwed
<1>1. BaseInv /\ TbcInv => HandlersAreOwed
    BY DeadOwesNothing DEF HandlersAreOwed, TbcIsBalanced, TbcInv, Owed, Balanced
<1> QED
    BY <1>1, BaseAlways, TbcAlways, PTL

\* Under the same conditions a coroutine that has died is not run again:
\* coroutine.resume refuses it, and coroutine.close finds no handler to run.
THEOREM DeadNeverReturns ==
    ASSUME "goPanic" \notin Behaviours, "gcTbc" \notin Behaviours
    PROVE  Spec => DeadStaysDead
<1>1. ASSUME BaseInv, TbcInv, [Next]_vars, NEW t \in Coroutines, status[t] = "dead"
      PROVE  status'[t] = "dead"
    <2>1. /\ t \in Threads /\ tbc[t] = <<>> /\ at[t] \in Resting
          /\ \A d \in Threads : callee[d] # t
        BY <1>1, DeadOwesNothing DEF DeadIsSettled, Threads
    <2>2. status \in [Threads -> {"none", "suspended", "running", "normal", "dead"}]
        BY <1>1 DEF BaseInv, TypeOK
    <2>3. at[t] \notin Executing \cup Sending \cup Waiting /\ at[t] # "lua"
        BY <2>1 DEF Executing, Sending, Resting, Waiting, Driving
    <2>4. callee[t] = NoThread
        BY <1>1, <2>1, <2>3 DEF BaseInv, CoInv, ChainInv, Callers
    <2>5. ASSUME NEW x \in Threads, Local(x)
          PROVE  status' = status
        BY <2>5 DEF Local, Enter, PromotionSwallowed, RegisterTbc, Raise, GoPanic, ScopeExit,
            RunClose, CallClose, EndClose, Return, Catch, CatchPanic
    <2>6. ASSUME NEW x \in Threads, NEW co \in Coroutines,
                 \/ Create(x, co) \/ ResumeSync(x, co) \/ ResumePromoted(x, co)
                 \/ Handoff(x, co) \/ RecvCoMsg(x, co) \/ Close(x, co)
          PROVE  status'[t] = "dead"
        <3>1. x # t
            BY <2>3, <2>6 DEF Create, ResumeSync, ResumePromoted, StartResume, Handoff, RecvCoMsg, Close,
                Waiting, Driving
        <3> QED
            BY <1>1, <2>1, <2>2, <2>6, <3>1 DEF Create, ResumeSync, ResumePromoted, StartResume,
                Resumable, Handover, Handoff, RecvCoMsg, Close
    <2>7. ASSUME NEW x \in Coroutines, NEW d \in Threads,
                 \/ Promote(x, d) \/ BodyReturnSync(x, d) \/ YieldSync(x, d)
                 \/ DieSync(x, d) \/ EndDeathSync(x, d) \/ EndCoClose(x, d) \/ PanicSync(x, d)
          PROVE  status'[t] = "dead"
        <3>1. callee[d] = x
            BY <2>7 DEF Promote, BodyReturnSync, YieldSync, DieSync, EndDeathSync, EndCoClose, PanicSync
        <3>2. x # t /\ d # t
            BY <2>1, <2>4, <3>1, ThreadAssumption DEF Threads
        <3> QED
            BY <1>1, <2>1, <2>2, <2>7, <3>2 DEF Promote, BodyReturnSync, YieldSync, DieSync, EndDeathSync,
                EndCoClose, PanicSync
    <2>8. ASSUME NEW x \in Coroutines,
                 \/ BodyReturnPromoted(x) \/ YieldPromoted(x) \/ DiePromoted(x)
                 \/ EndDeathPromoted(x) \/ PanicPromoted(x)
          PROVE  status' = status
        BY <2>8 DEF BodyReturnPromoted, YieldPromoted, DiePromoted, EndDeathPromoted, PanicPromoted
    <2>9. CASE Next
        <3>1. CASE \E x \in Threads : Local(x)
            BY <1>1, <2>5, <3>1
        <3>2. CASE HostError \/ PanicHost
            BY <1>1, <3>2 DEF HostError, PanicHost
        <3>3. CASE \E x \in Threads, co \in Coroutines :
                       \/ Create(x, co) \/ ResumeSync(x, co) \/ ResumePromoted(x, co)
                       \/ Handoff(x, co) \/ RecvCoMsg(x, co) \/ Close(x, co)
            BY <2>6, <3>3
        <3>4. CASE \E x \in Coroutines, d \in Threads :
                       \/ Promote(x, d) \/ BodyReturnSync(x, d) \/ YieldSync(x, d)
                       \/ DieSync(x, d) \/ EndDeathSync(x, d) \/ EndCoClose(x, d) \/ PanicSync(x, d)
            BY <2>7, <3>4
        <3>5. CASE \E x \in Coroutines :
                       \/ BodyReturnPromoted(x) \/ YieldPromoted(x) \/ DiePromoted(x)
                       \/ EndDeathPromoted(x) \/ PanicPromoted(x)
            BY <1>1, <2>8, <3>5
        <3> QED
            BY <2>9, <3>1, <3>2, <3>3, <3>4, <3>5 DEF Next, Local
    <2>10. CASE UNCHANGED vars
        BY <1>1, <2>10 DEF vars
    <2> QED
        BY <1>1, <2>9, <2>10
<1>2. BaseInv /\ TbcInv /\ [Next]_vars
        => [\A t \in Coroutines : status[t] = "dead" => status'[t] = "dead"]_vars
    BY <1>1
<1> QED
    BY <1>2, BaseAlways, TbcAlways, PTL DEF Spec, DeadStaysDead
=============================================================================
