----------------------------- MODULE TlsProofs -----------------------------
(***************************************************************************)
(* Theorems about the credentials of a server: the files a call returns    *)
(* belong together, because a key is never older than a certificate made   *)
(* for another one, and only the innermost of the unfinished calls is past *)
(* its loop.                                                               *)
(***************************************************************************)
EXTENDS Tls, SequenceTheorems, TLAPS

-----------------------------------------------------------------------------
(* The unfinished calls. *)

(* All but the innermost wait in their loops. *)
OthersWait(s) == \A i \in 1..Len(s) : i < Len(s) => s[i].pc = "wait"

(* Calls past their loop have been counted as keys, or will make none. *)
PastLoop == {"open", "write", "stat", "renew", "done", "failed"}

Settled(s) == IF s # <<>> /\ Last(s).pc \in PastLoop THEN 1 ELSE 0

Replace(s, c) == [s EXCEPT ![Len(s)] = c]

Report(s, i, c) == [s EXCEPT ![i] = c]

(* The innermost call. *)
LEMMA LastFacts ==
    ASSUME NEW s \in Seq(Calls), s # <<>>
    PROVE  /\ Len(s) \in Nat \ {0}
           /\ Len(s) \in 1..Len(s)
           /\ Last(s) = s[Len(s)]
           /\ Last(s) \in Calls
           /\ \A i \in 1..Len(s) : s[i] \in Calls
  <1>1. Len(s) \in Nat \ {0}
    BY EmptySeq
  <1>2. \A i \in 1..Len(s) : s[i] \in Calls
    BY ElementOfSeq
  <1>3. QED  BY <1>1, <1>2 DEF Last

(* The innermost call proceeds. *)
LEMMA ReplaceFacts ==
    ASSUME NEW s \in Seq(Calls), s # <<>>, OthersWait(s), NEW c \in Calls
    PROVE  /\ Replace(s, c) \in Seq(Calls)
           /\ Replace(s, c) # <<>>
           /\ Len(Replace(s, c)) = Len(s)
           /\ Last(Replace(s, c)) = c
           /\ OthersWait(Replace(s, c))
  <1> DEFINE t == Replace(s, c)
  <1>1. Len(s) \in Nat \ {0} /\ Len(s) \in 1..Len(s)
    BY LastFacts
  <1>2. t \in Seq(Calls) /\ Len(t) = Len(s)
    BY ExceptSeq, <1>1 DEF Replace
  <1>3. t[Len(s)] = c /\ \A i \in 1..Len(s) : i # Len(s) => t[i] = s[i]
    BY ExceptSeq, <1>1 DEF Replace
  <1> HIDE DEF t
  <1>4. t # <<>>
    BY <1>1, <1>2, EmptySeq
  <1>5. OthersWait(t)
    BY <1>1, <1>2, <1>3 DEF OthersWait
  <1>6. Last(t) = c
    BY <1>2, <1>3 DEF Last
  <1>7. QED  BY <1>2, <1>4, <1>5, <1>6 DEF t

(* A thread reports to its call, innermost or not. *)
LEMMA ReportFacts ==
    ASSUME NEW s \in Seq(Calls), s # <<>>, OthersWait(s), NEW i \in 1..Len(s),
           NEW c \in Calls, c.pc = s[i].pc, c.key = s[i].key, c.at = s[i].at
    PROVE  /\ Report(s, i, c) \in Seq(Calls)
           /\ Report(s, i, c) # <<>>
           /\ Len(Report(s, i, c)) = Len(s)
           /\ Last(Report(s, i, c)).pc = Last(s).pc
           /\ Last(Report(s, i, c)).key = Last(s).key
           /\ Last(Report(s, i, c)).at = Last(s).at
           /\ OthersWait(Report(s, i, c))
  <1> DEFINE t == Report(s, i, c)
  <1>1. Len(s) \in Nat \ {0} /\ Len(s) \in 1..Len(s)
    BY LastFacts
  <1>2. t \in Seq(Calls) /\ Len(t) = Len(s)
    BY ExceptSeq DEF Report
  <1>3. t[i] = c /\ \A j \in 1..Len(s) : j # i => t[j] = s[j]
    BY ExceptSeq DEF Report
  <1> HIDE DEF t
  <1>4. t # <<>>
    BY <1>1, <1>2, EmptySeq
  <1>5. \A j \in 1..Len(s) : t[j].pc = s[j].pc /\ t[j].key = s[j].key /\ t[j].at = s[j].at
    BY <1>3
  <1>6. OthersWait(t)
    BY <1>1, <1>2, <1>5 DEF OthersWait
  <1>7. QED  BY <1>1, <1>2, <1>4, <1>5, <1>6 DEF Last, t

(* The application calls, from the waiting loop of the innermost call if there is one. *)
LEMMA CallFacts ==
    ASSUME NEW s \in Seq(Calls), OthersWait(s), s = <<>> \/ Last(s).pc = "wait",
           NEW c \in Calls
    PROVE  /\ Append(s, c) \in Seq(Calls)
           /\ Append(s, c) # <<>>
           /\ Len(Append(s, c)) = Len(s) + 1
           /\ Last(Append(s, c)) = c
           /\ OthersWait(Append(s, c))
  <1> DEFINE t == Append(s, c)
  <1>1. /\ t \in Seq(Calls)
        /\ Len(s) \in Nat
        /\ Len(t) = Len(s) + 1
        /\ \A i \in 1..Len(s) : t[i] = s[i]
        /\ t[Len(s) + 1] = c
    OBVIOUS
  <1> HIDE DEF t
  <1>2. t # <<>>
    BY <1>1, EmptySeq
  <1>3. \A i \in 1..Len(s) : s[i].pc = "wait"
    <2> SUFFICES ASSUME NEW i \in 1..Len(s) PROVE s[i].pc = "wait"
      OBVIOUS
    <2>1. s # <<>> /\ Last(s).pc = "wait"
      BY <1>1, EmptySeq
    <2>2. QED  BY <1>1, <2>1 DEF OthersWait, Last
  <1>4. OthersWait(t)
    BY <1>1, <1>3 DEF OthersWait
  <1>5. Last(t) = c
    BY <1>1 DEF Last
  <1>6. QED  BY <1>1, <1>2, <1>4, <1>5 DEF t

(* The innermost call returns to a call that waits. *)
LEMMA ReturnFacts ==
    ASSUME NEW s \in Seq(Calls), s # <<>>, OthersWait(s)
    PROVE  /\ Front(s) \in Seq(Calls)
           /\ Len(Front(s)) = Len(s) - 1
           /\ OthersWait(Front(s))
           /\ Front(s) # <<>> => Last(Front(s)).pc = "wait"
  <1> DEFINE t == Front(s)
             n == Len(s) - 1
  <1>1. Len(s) \in Nat \ {0} /\ \A i \in 1..Len(s) : s[i] \in Calls
    BY LastFacts
  <1>2. n \in Nat /\ \A i \in 1..n : i \in 1..Len(s) /\ s[i] \in Calls
    BY <1>1
  <1>3. /\ t \in Seq(Calls)
        /\ Len(t) = n
        /\ \A i \in 1..n : t[i] = s[i]
    <2> HIDE DEF n
    <2>1. /\ SubSeq(s, 1, n) \in Seq(Calls)
          /\ Len(SubSeq(s, 1, n)) = IF 1 <= n THEN n - 1 + 1 ELSE 0
          /\ \A i \in 1..(n - 1 + 1) : SubSeq(s, 1, n)[i] = s[1 + i - 1]
      BY <1>2, SubSeqProperties
    <2>2. \A i \in 1..n : i \in 1..(n - 1 + 1) /\ 1 + i - 1 = i
      BY <1>2
    <2>3. SubSeq(s, 1, n) = t
      BY DEF Front, n
    <2>4. QED  BY <1>2, <2>1, <2>2, <2>3
  <1> HIDE DEF t
  <1>4. \A i \in 1..n : s[i].pc = "wait"
    BY <1>1 DEF OthersWait
  <1>5. OthersWait(t)
    BY <1>2, <1>3, <1>4 DEF OthersWait
  <1>6. t # <<>> => Last(t).pc = "wait"
    BY <1>2, <1>3, <1>4, EmptySeq DEF Last
  <1>7. QED  BY <1>3, <1>5, <1>6 DEF t

-----------------------------------------------------------------------------
(* Types. *)

(* Every key was made by a call, and every call was an event. *)
Counted == made + Len(calls) + budget <= MaxEvents + Settled(calls)

FilesOK ==
    /\ now \in Nat
    /\ keyFile \in [key : {Missing, Torn} \cup Keys, mtime : Nat]
    /\ crtFile \in [key : {Missing} \cup Keys, from : Nat, until : Nat, mtime : Nat]

ProgressOK ==
    /\ hooks \in [kind : {"default", "own", "window"}, context : {0} \cup Objects]
    /\ windows \subseteq Objects
    /\ pulses \subseteq Objects
    /\ titles \subseteq Objects
    /\ fault \in {"none", "freed"}

CallsOK ==
    /\ made \in 0..MaxEvents
    /\ budget \in 0..MaxEvents
    /\ calls \in Seq(Calls)
    /\ OthersWait(calls)
    /\ Counted

TypeInv == FilesOK /\ ProgressOK /\ CallsOK

LEMMA TypeInvImplies == TypeInv => TypeOK
  BY DEF TypeInv, FilesOK, ProgressOK, CallsOK, TypeOK

LEMMA TypeInit == ASSUME Init PROVE TypeInv
  <1>1. FilesOK
    BY DEF Init, FilesOK
  <1>2. ProgressOK
    BY DEF Init, ProgressOK
  <1>3. /\ made = 0 /\ budget = MaxEvents /\ calls = <<>> /\ MaxEvents \in Nat
        /\ Len(calls) = 0 /\ calls \in Seq(Calls)
    BY TlsAssumption, EmptySeq DEF Init
  <1>4. OthersWait(calls)
    BY <1>3 DEF OthersWait
  <1>5. Counted
    BY <1>3 DEF Counted, Settled
  <1>6. QED  BY <1>1, <1>2, <1>3, <1>4, <1>5 DEF TypeInv, CallsOK

(* The innermost call proceeds without a new key. *)
LEMMA Proceeds ==
    ASSUME CallsOK, calls # <<>>, NEW c \in Calls, calls' = Replace(calls, c),
           Last(calls).pc \in PastLoop => c.pc \in PastLoop,
           made' = made, budget' = budget
    PROVE  CallsOK'
  <1>1. calls \in Seq(Calls) /\ OthersWait(calls)
    BY DEF CallsOK
  <1>2. /\ calls' \in Seq(Calls) /\ calls' # <<>> /\ Len(calls') = Len(calls)
        /\ Last(calls') = c /\ OthersWait(calls')
    BY <1>1, ReplaceFacts
  <1>3. Settled(calls') >= Settled(calls) /\ Settled(calls) \in Nat /\ Settled(calls') \in Nat
    BY <1>2 DEF Settled
  <1>4. Counted'
    <2>1. Counted /\ made \in Nat /\ budget \in Nat /\ Len(calls) \in Nat /\ MaxEvents \in Nat
      BY <1>1, TlsAssumption, LastFacts DEF CallsOK
    <2>2. QED  BY <2>1, <1>2, <1>3 DEF Counted
  <1>5. QED  BY <1>2, <1>4 DEF CallsOK

(* Files and calls stay as they are, and an event may have happened. *)
LEMMA OnlyEvents ==
    ASSUME CallsOK, calls' = calls, made' = made,
           budget' = budget \/ (budget > 0 /\ budget' = budget - 1)
    PROVE  CallsOK'
  <1>1. budget' \in 0..MaxEvents /\ budget' <= budget
    BY TlsAssumption DEF CallsOK
  <1>2. Settled(calls)' = Settled(calls) /\ Settled(calls) \in Nat
    BY DEF Settled
  <1>3. Len(calls) \in Nat
    BY DEF CallsOK
  <1>4. Counted'
    BY <1>1, <1>2, <1>3, TlsAssumption DEF CallsOK, Counted
  <1>5. QED  BY <1>1, <1>4 DEF CallsOK, OthersWait

(* Hooks replaced, windows opened and closed keep their types. *)
LEMMA ProgressSteps ==
    ASSUME ProgressOK
    PROVE  /\ ProgressBegin /\ fault' = fault => ProgressOK'
           /\ ProgressEnd => ProgressOK'
           /\ ProgressFlashes /\ fault' = fault => ProgressOK'
           /\ \A kind \in {"default", "own", "window"} :
                SetHooks(kind) /\ fault' = fault => ProgressOK'
  <1>1. ASSUME ProgressBegin, fault' = fault PROVE ProgressOK'
    BY <1>1 DEF ProgressBegin, ProgressOK, progress
  <1>2. ASSUME ProgressEnd PROVE ProgressOK'
    BY <1>2 DEF ProgressEnd, Destroy, ProgressOK, progress
  <1>3. ASSUME NEW kind \in {"default", "own", "window"}, SetHooks(kind), fault' = fault
        PROVE  ProgressOK'
    BY <1>3 DEF SetHooks, Destroy, ProgressOK
  <1>4. ASSUME ProgressFlashes, fault' = fault PROVE ProgressOK'
    BY <1>4 DEF ProgressFlashes, ProgressOK
  <1>5. QED  BY <1>1, <1>2, <1>3, <1>4

LEMMA TypeStep == ASSUME TypeInv, [Next]_vars PROVE TypeInv'
  <1> USE DEF TypeInv
  <1>0. /\ calls \in Seq(Calls) /\ OthersWait(calls)
        /\ (calls # <<>> => Last(calls) \in Calls /\ Len(calls) \in 1..Len(calls))
    BY LastFacts DEF CallsOK
  <1> DEFINE Ordinary(c) ==
        /\ calls # <<>> /\ c \in Calls /\ calls' = Replace(calls, c)
        /\ (Last(calls).pc \in PastLoop => c.pc \in PastLoop)
        /\ made' = made /\ budget' = budget
  <1>A. ASSUME NEW c, Ordinary(c) PROVE CallsOK'
    BY <1>A, Proceeds
  <1>1. CASE GetServerCredentials
    <2>1. NewCall \in Calls
      BY DEF NewCall, Calls, Steps
    <2>2. /\ calls = <<>> \/ Last(calls).pc = "wait"
          /\ calls' = Append(calls, NewCall)
          /\ budget > 0 /\ budget' = budget - 1 /\ made' = made
      BY <1>1 DEF GetServerCredentials, Event, Dispatching, Top
    <2>3. /\ calls' \in Seq(Calls) /\ Len(calls') = Len(calls) + 1
          /\ Last(calls') = NewCall /\ OthersWait(calls')
      BY <1>0, <2>1, <2>2, CallFacts
    <2>4. Settled(calls) = 0 /\ Settled(calls)' = 0
      BY <2>2, <2>3 DEF Settled, PastLoop, NewCall
    <2>5. CallsOK'
      BY <2>2, <2>3, <2>4, <1>0, TlsAssumption DEF CallsOK, Counted
    <2>6. FilesOK' /\ ProgressOK'
      BY <1>1 DEF GetServerCredentials, FilesOK, ProgressOK, files, progress
    <2>7. QED  BY <2>5, <2>6
  <1>2. CASE KeyLoad
    <2>1. FilesOK' /\ ProgressOK'
      BY <1>2 DEF KeyLoad, FilesOK, ProgressOK, files, progress
    <2>2. \E c : Ordinary(c)
      <3>1. CASE Readable(keyFile)
        <4>1. Ordinary([Last(calls) EXCEPT !.pc = "stat", !.key = keyFile.key])
          BY <1>2, <1>0, <3>1
             DEF KeyLoad, Top, Last, Replace, Calls, Steps, Readable, PastLoop
        <4>2. QED  BY <4>1
      <3>2. CASE ~Readable(keyFile)
        <4>1. Ordinary([Last(calls) EXCEPT !.pc = "begin"])
          BY <1>2, <1>0, <3>2 DEF KeyLoad, Top, Last, Replace, Calls, Steps, PastLoop
        <4>2. QED  BY <4>1
      <3>3. QED  BY <3>1, <3>2
    <2>3. QED  BY <2>1, <2>2, <1>A
  <1>3. CASE KeyNew
    <2>1. FilesOK'
      BY <1>3 DEF KeyNew, FilesOK, files
    <2>2. ProgressOK'
      BY <1>3, ProgressSteps DEF KeyNew
    <2>3. CASE calls' = [calls EXCEPT ![Len(calls)].pc = "start", ![Len(calls)].thread = "busy"]
      <3>1. Ordinary([Last(calls) EXCEPT !.pc = "start", !.thread = "busy"])
        BY <1>3, <1>0, <2>3 DEF KeyNew, Top, Last, Replace, Calls, Steps, PastLoop
      <3>2. QED  BY <2>1, <2>2, <3>1, <1>A
    <2>4. CASE Goto("failed")
      <3>1. Ordinary([Last(calls) EXCEPT !.pc = "failed"])
        BY <1>3, <1>0, <2>4 DEF KeyNew, Goto, Top, Last, Replace, Calls, Steps, PastLoop
      <3>2. QED  BY <2>1, <2>2, <3>1, <1>A
    <2>5. QED  BY <1>3, <2>3, <2>4 DEF KeyNew
  <1>4. ASSUME NEW i \in 1..MaxDepth, KeyThread(i) PROVE TypeInv'
    <2>1. FilesOK' /\ ProgressOK'
      BY <1>4 DEF KeyThread, FilesOK, ProgressOK, files, progress
    <2>2. PICK rc \in {"success", "failure"} :
            calls' = [calls EXCEPT ![i].thread = rc, ![i].loop = QuitLoop(calls[i], rc)]
      BY <1>4 DEF KeyThread
    <2>3. i \in 1..Len(calls) /\ calls # <<>> /\ calls[i] \in Calls
      <3>1. i \in DOMAIN calls
        BY <1>4 DEF KeyThread
      <3>2. i \in 1..Len(calls)
        BY <3>1, <1>0
      <3>3. QED  BY <3>2, <1>0, ElementOfSeq, EmptySeq
    <2> DEFINE c == [calls[i] EXCEPT !.thread = rc, !.loop = QuitLoop(calls[i], rc)]
    <2>4. /\ c \in Calls /\ c.pc = calls[i].pc /\ c.key = calls[i].key /\ c.at = calls[i].at
          /\ calls' = Report(calls, i, c)
      BY <2>2, <2>3 DEF Calls, QuitLoop, Report
    <2> HIDE DEF c
    <2>5. /\ calls' \in Seq(Calls) /\ calls' # <<>> /\ Len(calls') = Len(calls)
          /\ Last(calls').pc = Last(calls).pc /\ OthersWait(calls')
      BY <1>0, <2>3, <2>4, ReportFacts
    <2>6. Settled(calls)' = Settled(calls) /\ made' = made /\ budget' = budget
      BY <1>4, <2>3, <2>5 DEF KeyThread, Settled
    <2>7. CallsOK'
      BY <2>5, <2>6, TlsAssumption DEF CallsOK, Counted
    <2>8. QED  BY <2>1, <2>7
  <1>5. CASE LoopRun
    <2>1. FilesOK' /\ ProgressOK'
      BY <1>5 DEF LoopRun, FilesOK, ProgressOK, files, progress
    <2>2. Ordinary([Last(calls) EXCEPT !.pc = "wait", !.loop = "running"])
      BY <1>5, <1>0 DEF LoopRun, Top, Last, Replace, Calls, Steps, PastLoop
    <2>3. QED  BY <2>1, <2>2, <1>A
  <1>6. CASE LoopReturns
    <2>1. FilesOK' /\ ProgressOK'
      BY <1>6, ProgressSteps DEF LoopReturns, FilesOK, files
    <2>2. CASE Last(calls).thread = "success"
      <3>1. /\ calls # <<>> /\ Last(calls).pc = "wait"
            /\ made' = made + 1 /\ budget' = budget
            /\ calls' = Replace(calls, [Last(calls) EXCEPT !.pc = "open", !.key = made'])
        BY <1>6, <2>2 DEF LoopReturns, Top, Replace, Last
      <3>2. /\ Settled(calls) = 0 /\ made \in Nat /\ budget \in Nat /\ Len(calls) \in Nat \ {0}
            /\ MaxEvents \in Nat
        BY <3>1, <1>0, LastFacts, TlsAssumption DEF Settled, PastLoop, CallsOK
      <3>3. made' \in Keys /\ made' + Len(calls) + budget <= MaxEvents + 1
        BY <3>1, <3>2 DEF CallsOK, Counted, Keys
      <3>4. [Last(calls) EXCEPT !.pc = "open", !.key = made'] \in Calls
        BY <3>3, <3>1, <1>0 DEF Calls, Steps
      <3>5. /\ calls' \in Seq(Calls) /\ calls' # <<>> /\ Len(calls') = Len(calls)
            /\ Last(calls').pc = "open" /\ OthersWait(calls')
        <4> DEFINE c == [Last(calls) EXCEPT !.pc = "open", !.key = made']
        <4>1. c.pc = "open"
          BY <3>1, <1>0 DEF Calls
        <4> HIDE DEF c
        <4>2. QED  BY <4>1, <3>1, <3>4, <1>0, ReplaceFacts DEF c
      <3>6. Counted'
        BY <3>1, <3>2, <3>3, <3>5 DEF Counted, Settled, PastLoop
      <3>7. QED  BY <2>1, <3>1, <3>2, <3>3, <3>5, <3>6 DEF CallsOK, Keys
    <2>3. CASE Last(calls).thread # "success"
      <3>1. Ordinary([Last(calls) EXCEPT !.pc = "failed"])
        BY <1>6, <1>0, <2>3 DEF LoopReturns, Goto, Top, Last, Replace, Calls, Steps, PastLoop
      <3>2. QED  BY <2>1, <3>1, <1>A
    <2>4. QED  BY <2>2, <2>3
  <1>7. CASE KeyOpen
    <2>1. FilesOK' /\ ProgressOK'
      BY <1>7 DEF KeyOpen, FilesOK, ProgressOK, progress
    <2>2. \/ Ordinary([Last(calls) EXCEPT !.pc = "write"])
          \/ Ordinary([Last(calls) EXCEPT !.pc = "failed"])
      BY <1>7, <1>0 DEF KeyOpen, Goto, Top, Last, Replace, Calls, Steps, PastLoop
    <2>3. QED  BY <2>1, <2>2, <1>A
  <1>8. CASE KeyWrite
    <2>1. FilesOK' /\ ProgressOK'
      <3>1. Last(calls).key \in {Missing} \cup Keys
        BY <1>8, <1>0 DEF KeyWrite, Top, Calls
      <3>2. QED  BY <3>1, <1>8 DEF KeyWrite, Saved, FilesOK, ProgressOK, progress
    <2>2. \/ Ordinary([Last(calls) EXCEPT !.pc = "stat"])
          \/ Ordinary([Last(calls) EXCEPT !.pc = "failed"])
      BY <1>8, <1>0 DEF KeyWrite, Goto, Top, Last, Replace, Calls, Steps, PastLoop
    <2>3. QED  BY <2>1, <2>2, <1>A
  <1>9. CASE CertificateLoad
    <2>1. FilesOK' /\ ProgressOK'
      BY <1>9 DEF CertificateLoad, FilesOK, ProgressOK, files, progress
    <2>2. Ordinary([Last(calls) EXCEPT !.pc = IF CertificateFound THEN "done" ELSE "renew",
                                       !.at = now])
      BY <1>9, <1>0
         DEF CertificateLoad, Top, Last, Replace, Calls, Steps, PastLoop, FilesOK
    <2>3. QED  BY <2>1, <2>2, <1>A
  <1>10. CASE CertificateRenew
    <2>1. FilesOK' /\ ProgressOK'
      <3>1. Last(calls).key \in {Missing} \cup Keys
        BY <1>10, <1>0 DEF CertificateRenew, Top, Calls
      <3>2. QED
        BY <3>1, <1>10, TlsAssumption DEF CertificateRenew, FilesOK, ProgressOK, progress
    <2>2. \/ Ordinary([Last(calls) EXCEPT !.pc = "done", !.at = now])
          \/ Ordinary([Last(calls) EXCEPT !.pc = "failed"])
      BY <1>10, <1>0
         DEF CertificateRenew, Goto, Top, Last, Replace, Calls, Steps, PastLoop, FilesOK
    <2>3. QED  BY <2>1, <2>2, <1>A
  <1>11. CASE Return
    <2>1. FilesOK' /\ ProgressOK'
      BY <1>11 DEF Return, FilesOK, ProgressOK, files, progress
    <2>2. /\ calls # <<>> /\ Last(calls).pc \in {"done", "failed"} /\ calls' = Front(calls)
          /\ made' = made /\ budget' = budget
      BY <1>11 DEF Return, Top
    <2>3. /\ calls' \in Seq(Calls) /\ Len(calls') = Len(calls) - 1 /\ OthersWait(calls')
      BY <1>0, <2>2, ReturnFacts
    <2>4. Settled(calls) = 1 /\ Settled(calls)' \in Nat /\ Len(calls) \in Nat
      BY <2>2, <1>0 DEF Settled, PastLoop
    <2>5. CallsOK'
      BY <2>2, <2>3, <2>4, TlsAssumption DEF CallsOK, Counted
    <2>6. QED  BY <2>1, <2>5
  <1>12. CASE SetProgressHooks
    <2>1. FilesOK' /\ CallsOK'
      BY <1>12, OnlyEvents DEF SetProgressHooks, Event, FilesOK, files
    <2>2. ProgressOK'
      BY <1>12, ProgressSteps DEF SetProgressHooks
    <2>3. QED  BY <2>1, <2>2
  <1>13. CASE ProgressUpdate
    <2>1. FilesOK' /\ CallsOK'
      BY <1>13, OnlyEvents DEF ProgressUpdate, Event, FilesOK, files
    <2>2. ProgressOK'
      BY <1>13 DEF ProgressUpdate, ProgressOK
    <2>3. QED  BY <2>1, <2>2
  <1>14. CASE Crash
    <2>1. /\ FilesOK' /\ ProgressOK'
      BY <1>14 DEF Crash, FilesOK, ProgressOK, files
    <2>2. calls # <<>> /\ calls' = <<>> /\ budget > 0 /\ budget' = budget - 1 /\ made' = made
      BY <1>14 DEF Crash
    <2>3. Len(calls) \in Nat \ {0} /\ Len(calls') = 0 /\ calls' \in Seq(Calls)
      BY <1>0, <2>2, EmptySeq
    <2>4. Settled(calls) \in 0..1 /\ Settled(calls)' = 0
      BY <2>2 DEF Settled
    <2>5. Counted'
      BY <2>2, <2>3, <2>4, TlsAssumption DEF CallsOK, Counted
    <2>6. OthersWait(calls')
      BY <2>3 DEF OthersWait
    <2>7. QED  BY <2>1, <2>2, <2>3, <2>5, <2>6, TlsAssumption DEF CallsOK
  <1>15. CASE KeyLost
    <2>1. CallsOK' /\ ProgressOK'
      BY <1>15, OnlyEvents DEF KeyLost, Event, ProgressOK, progress
    <2>2. FilesOK'
      BY <1>15 DEF KeyLost, FilesOK
    <2>3. QED  BY <2>1, <2>2
  <1>16. CASE CertificateLost
    <2>1. CallsOK' /\ ProgressOK'
      BY <1>16, OnlyEvents DEF CertificateLost, Event, ProgressOK, progress
    <2>2. FilesOK'
      BY <1>16 DEF CertificateLost, FilesOK
    <2>3. QED  BY <2>1, <2>2
  <1>17. CASE Tick
    <2>1. CallsOK' /\ ProgressOK'
      BY <1>17, OnlyEvents DEF Tick, ProgressOK, progress
    <2>2. FilesOK'
      BY <1>17 DEF Tick, FilesOK, files
    <2>3. QED  BY <2>1, <2>2
  <1>18. CASE UNCHANGED vars
    <2>1. CallsOK'
      BY <1>18, OnlyEvents DEF vars
    <2>2. FilesOK' /\ ProgressOK'
      BY <1>18 DEF vars, files, progress, FilesOK, ProgressOK
    <2>3. QED  BY <2>1, <2>2
  <1>19. QED
    BY <1>1, <1>2, <1>3, <1>4, <1>5, <1>6, <1>7, <1>8, <1>9, <1>10, <1>11, <1>12, <1>13, <1>14,
       <1>15, <1>16, <1>17, <1>18 DEF Next

(* Files, calls, hooks and windows keep their types. *)
THEOREM TypeCorrect == Spec => []TypeOK
  <1>1. Init => TypeInv
    BY TypeInit
  <1>2. TypeInv /\ [Next]_vars => TypeInv'
    BY TypeStep
  <1>3. TypeInv => TypeOK
    BY TypeInvImplies
  <1>4. QED  BY <1>1, <1>2, <1>3, PTL DEF Spec

-----------------------------------------------------------------------------
(* The files belong together. *)

(* Only a key that is older than the certificate counts as certified, and then it
   is the one the certificate was made for. *)
Fit ==
    (keyFile.key \in Keys /\ crtFile.key # Missing /\ keyFile.mtime <= crtFile.mtime)
        => crtFile.key = keyFile.key

(* What call c, the innermost, holds, with the files k and t. *)
HeldBy(c, k, t) ==
    /\ c.pc \in {"open", "write"} => c.key \in Keys
    /\ c.pc \in {"stat", "renew", "done"} => c.key \in Keys /\ k.key = c.key
    /\ c.pc = "done" => /\ t.key = k.key
                        /\ t.from <= c.at
                        /\ c.at <= t.until

Held == calls # <<>> => HeldBy(Last(calls), keyFile, crtFile)

PairInv == Fit /\ Held

LEMMA PairInit == ASSUME Init PROVE PairInv
  BY DEF Init, PairInv, Fit, Held, Keys, Missing

(* The innermost call is where it was, with the files it found. *)
LEMMA SameHeld ==
    ASSUME Held, keyFile' = keyFile, crtFile' = crtFile,
           calls' # <<>> => /\ calls # <<>>
                            /\ Last(calls').pc = Last(calls).pc
                            /\ Last(calls').key = Last(calls).key
                            /\ Last(calls').at = Last(calls).at
    PROVE  Held'
  BY DEF Held, HeldBy

(* The innermost call waits, or is about to start. *)
LEMMA NothingHeld ==
    ASSUME calls' # <<>> => Last(calls').pc \in {"load", "begin", "start", "wait", "failed"}
    PROVE  Held'
  BY DEF Held, HeldBy

LEMMA PairStep ==
    ASSUME "same_second" \notin Hazards, TypeInv, PairInv, [Next]_vars
    PROVE  PairInv'
  <1> USE DEF PairInv
  <1>0. /\ calls \in Seq(Calls) /\ OthersWait(calls)
        /\ (calls # <<>> => Last(calls) \in Calls)
    BY LastFacts DEF TypeInv, CallsOK
  <1> DEFINE Advances(c) ==
        calls # <<>> /\ c \in Calls /\ calls' = Replace(calls, c)
  <1>A. ASSUME NEW c, Advances(c) PROVE calls' # <<>> /\ Last(calls') = c
    BY <1>A, <1>0, ReplaceFacts
  <1>B. ASSUME UNCHANGED files PROVE Fit'
    BY <1>B DEF files, Fit
  <1>1. CASE GetServerCredentials
    <2>1. NewCall \in Calls
      BY DEF NewCall, Calls, Steps
    <2>2. Last(calls') = NewCall
      BY <1>1, <2>1, <1>0, CallFacts DEF GetServerCredentials, Event, Dispatching, Top
    <2>3. Held'
      BY <2>2, NothingHeld DEF NewCall
    <2>4. QED  BY <1>1, <1>B, <2>3 DEF GetServerCredentials
  <1>2. CASE KeyLoad
    <2>1. CASE Readable(keyFile)
      <3> DEFINE c == [Last(calls) EXCEPT !.pc = "stat", !.key = keyFile.key]
      <3>1. /\ Advances(c) /\ c.pc = "stat" /\ c.key = keyFile.key /\ keyFile.key \in Keys
            /\ UNCHANGED files
        BY <1>2, <1>0, <2>1
           DEF KeyLoad, Top, Last, Replace, Calls, Steps, Readable, files
      <3> HIDE DEF c
      <3>2. HeldBy(c, keyFile', crtFile')
        BY <3>1 DEF HeldBy, files
      <3>3. QED  BY <3>1, <3>2, <1>A, <1>B DEF Held
    <2>2. CASE ~Readable(keyFile)
      <3> DEFINE c == [Last(calls) EXCEPT !.pc = "begin"]
      <3>1. Advances(c) /\ c.pc = "begin" /\ UNCHANGED files
        BY <1>2, <1>0, <2>2 DEF KeyLoad, Top, Last, Replace, Calls, Steps, files
      <3> HIDE DEF c
      <3>2. QED  BY <3>1, <1>A, <1>B, NothingHeld
    <2>3. QED  BY <2>1, <2>2
  <1>3. CASE KeyNew
    <2>1. CASE calls' = [calls EXCEPT ![Len(calls)].pc = "start", ![Len(calls)].thread = "busy"]
      <3> DEFINE c == [Last(calls) EXCEPT !.pc = "start", !.thread = "busy"]
      <3>1. Advances(c) /\ c.pc = "start" /\ UNCHANGED files
        BY <1>3, <1>0, <2>1 DEF KeyNew, Top, Last, Replace, Calls, Steps, files
      <3> HIDE DEF c
      <3>2. QED  BY <3>1, <1>A, <1>B, NothingHeld
    <2>2. CASE Goto("failed")
      <3> DEFINE c == [Last(calls) EXCEPT !.pc = "failed"]
      <3>1. Advances(c) /\ c.pc = "failed" /\ UNCHANGED files
        BY <1>3, <1>0, <2>2 DEF KeyNew, Goto, Top, Last, Replace, Calls, Steps, files
      <3> HIDE DEF c
      <3>2. QED  BY <3>1, <1>A, <1>B, NothingHeld
    <2>3. QED  BY <1>3, <2>1, <2>2 DEF KeyNew
  <1>4. ASSUME NEW i \in 1..MaxDepth, KeyThread(i) PROVE PairInv'
    <2>1. PICK rc \in {"success", "failure"} :
            calls' = [calls EXCEPT ![i].thread = rc, ![i].loop = QuitLoop(calls[i], rc)]
      BY <1>4 DEF KeyThread
    <2>2. i \in 1..Len(calls) /\ calls # <<>> /\ calls[i] \in Calls
      <3>1. i \in DOMAIN calls
        BY <1>4 DEF KeyThread
      <3>2. i \in 1..Len(calls)
        BY <3>1, <1>0
      <3>3. QED  BY <3>2, <1>0, ElementOfSeq, EmptySeq
    <2> DEFINE c == [calls[i] EXCEPT !.thread = rc, !.loop = QuitLoop(calls[i], rc)]
    <2>3. /\ c \in Calls /\ c.pc = calls[i].pc /\ c.key = calls[i].key /\ c.at = calls[i].at
          /\ calls' = Report(calls, i, c)
      BY <2>1, <2>2 DEF Calls, QuitLoop, Report
    <2> HIDE DEF c
    <2>4. /\ Last(calls').pc = Last(calls).pc /\ Last(calls').key = Last(calls).key
          /\ Last(calls').at = Last(calls).at
      BY <1>0, <2>2, <2>3, ReportFacts
    <2>5. UNCHANGED files
      BY <1>4 DEF KeyThread, files
    <2>6. QED  BY <2>2, <2>4, <2>5, <1>B, SameHeld DEF files
  <1>5. CASE LoopRun
    <2> DEFINE c == [Last(calls) EXCEPT !.pc = "wait", !.loop = "running"]
    <2>1. Advances(c) /\ c.pc = "wait" /\ UNCHANGED files
      BY <1>5, <1>0 DEF LoopRun, Top, Last, Replace, Calls, Steps, files
    <2> HIDE DEF c
    <2>2. QED  BY <2>1, <1>A, <1>B, NothingHeld
  <1>6. CASE LoopReturns
    <2>1. UNCHANGED files
      BY <1>6 DEF LoopReturns, files
    <2>2. CASE Last(calls).thread = "success"
      <3> DEFINE c == [Last(calls) EXCEPT !.pc = "open", !.key = made']
      <3>1. calls' = Replace(calls, c) /\ calls # <<>> /\ made' \in 0..MaxEvents /\ made' = made + 1
        BY <1>6, <2>2, TypeStep DEF LoopReturns, Top, Replace, Last, TypeInv, CallsOK
      <3>2. made' \in Keys
        BY <3>1, TlsAssumption DEF TypeInv, CallsOK, Keys
      <3>3. c \in Calls /\ c.pc = "open" /\ c.key \in Keys
        BY <3>1, <3>2, <1>0 DEF Calls, Steps
      <3> HIDE DEF c
      <3>4. calls' # <<>> /\ Last(calls') = c
        BY <3>1, <3>3, <1>A
      <3>5. Held'
        BY <3>3, <3>4 DEF Held, HeldBy
      <3>6. QED  BY <3>5, <2>1, <1>B
    <2>3. CASE Last(calls).thread # "success"
      <3> DEFINE c == [Last(calls) EXCEPT !.pc = "failed"]
      <3>1. Advances(c) /\ c.pc = "failed"
        BY <1>6, <1>0, <2>3 DEF LoopReturns, Goto, Top, Last, Replace, Calls, Steps
      <3> HIDE DEF c
      <3>2. QED  BY <3>1, <2>1, <1>A, <1>B, NothingHeld
    <2>4. QED  BY <2>2, <2>3
  <1>7. CASE KeyOpen
    <2>1. Fit'
      BY <1>7, TlsAssumption DEF KeyOpen, Fit, Keys, Torn, Missing
    <2>2. CASE Goto("write")
      <3> DEFINE c == [Last(calls) EXCEPT !.pc = "write"]
      <3>1. Advances(c) /\ c.pc = "write" /\ c.key = Last(calls).key /\ Last(calls).pc = "open"
        BY <1>7, <2>2, <1>0 DEF KeyOpen, Goto, Top, Last, Replace, Calls, Steps
      <3>2. Last(calls).key \in Keys
        BY <3>1 DEF Held, HeldBy
      <3> HIDE DEF c
      <3>3. HeldBy(c, keyFile', crtFile')
        BY <3>1, <3>2 DEF HeldBy
      <3>4. QED  BY <3>1, <3>3, <1>A, <2>1 DEF Held
    <2>3. CASE Goto("failed")
      <3> DEFINE c == [Last(calls) EXCEPT !.pc = "failed"]
      <3>1. Advances(c) /\ c.pc = "failed"
        BY <1>7, <2>3, <1>0 DEF KeyOpen, Goto, Top, Last, Replace, Calls, Steps
      <3> HIDE DEF c
      <3>2. QED  BY <3>1, <2>1, <1>A, NothingHeld
    <2>4. QED  BY <1>7, <2>2, <2>3 DEF KeyOpen
  <1>8. CASE KeyWrite
    <2>1. Last(calls).pc = "write" /\ Last(calls).key \in Keys
      BY <1>8 DEF KeyWrite, Top, Held, HeldBy
    <2>2. CASE Goto("stat") /\ keyFile' = Saved(Last(calls).key, now')
                 /\ now' \in {now, now + 1}
                 /\ (crtFile.key # Missing => crtFile.mtime < now')
      <3> DEFINE c == [Last(calls) EXCEPT !.pc = "stat"]
      <3>1. /\ Advances(c) /\ c.pc = "stat" /\ c.key = Last(calls).key
            /\ keyFile'.key = Last(calls).key /\ keyFile'.mtime = now'
            /\ crtFile' = crtFile
        BY <1>8, <2>2, <1>0 DEF KeyWrite, Goto, Top, Last, Replace, Calls, Steps, Saved
      <3> HIDE DEF c
      <3>2. HeldBy(c, keyFile', crtFile')
        BY <3>1, <2>1 DEF HeldBy
      <3>3. now' \in Nat /\ crtFile.mtime \in Nat
        BY <2>2 DEF TypeInv, FilesOK
      <3>4. Fit'
        BY <3>1, <3>3, <2>2 DEF Fit
      <3>5. QED  BY <3>1, <3>2, <3>4, <1>A DEF Held
    <2>3. CASE Goto("failed") /\ keyFile' = [key |-> Missing, mtime |-> 0]
      <3> DEFINE c == [Last(calls) EXCEPT !.pc = "failed"]
      <3>1. Advances(c) /\ c.pc = "failed"
        BY <1>8, <2>3, <1>0 DEF KeyWrite, Goto, Top, Last, Replace, Calls, Steps
      <3>2. Fit'
        BY <2>3, TlsAssumption DEF Fit, Keys, Missing
      <3> HIDE DEF c
      <3>3. QED  BY <3>1, <3>2, <1>A, NothingHeld
    <2>4. QED  BY <1>8, <2>2, <2>3 DEF KeyWrite
  <1>9. CASE CertificateLoad
    <2> DEFINE c == [Last(calls) EXCEPT !.pc = IF CertificateFound THEN "done" ELSE "renew",
                                        !.at = now]
    <2>1. /\ Advances(c) /\ c.key = Last(calls).key /\ c.at = now
          /\ c.pc = IF CertificateFound THEN "done" ELSE "renew"
          /\ UNCHANGED files
      BY <1>9, <1>0
         DEF CertificateLoad, Top, Last, Replace, Calls, Steps, TypeInv, FilesOK, files
    <2> HIDE DEF c
    <2>2. Last(calls).key \in Keys /\ keyFile.key = Last(calls).key
      BY <1>9 DEF CertificateLoad, Top, Held, HeldBy
    <2>3. HeldBy(c, keyFile', crtFile')
      BY <2>1, <2>2 DEF HeldBy, Fit, CertificateFound, files
    <2>4. QED  BY <2>1, <2>3, <1>A, <1>B DEF Held
  <1>10. CASE CertificateRenew
    <2>1. /\ calls # <<>> /\ Last(calls).key \in Keys /\ keyFile.key = Last(calls).key
          /\ keyFile' = keyFile
      BY <1>10 DEF CertificateRenew, Top, Held, HeldBy
    <2>2. CASE /\ crtFile' = [key |-> Last(calls).key, from |-> now, until |-> now + Validity,
                              mtime |-> now]
               /\ calls' = [calls EXCEPT ![Len(calls)].pc = "done", ![Len(calls)].at = now]
      <3> DEFINE c == [Last(calls) EXCEPT !.pc = "done", !.at = now]
      <3>1. Advances(c) /\ c.pc = "done" /\ c.key = Last(calls).key /\ c.at = now
        BY <2>1, <2>2, <1>0 DEF Last, Replace, Calls, Steps, TypeInv, FilesOK
      <3> HIDE DEF c
      <3>2. now \in Nat /\ now <= now + Validity
        BY TlsAssumption DEF TypeInv, FilesOK
      <3>3. HeldBy(c, keyFile', crtFile')
        BY <3>1, <3>2, <2>1, <2>2 DEF HeldBy
      <3>4. Fit'
        BY <2>1, <2>2 DEF Fit
      <3>5. QED  BY <3>1, <3>3, <3>4, <1>A DEF Held
    <2>3. CASE Goto("failed") /\ crtFile' = crtFile
      <3> DEFINE c == [Last(calls) EXCEPT !.pc = "failed"]
      <3>1. Advances(c) /\ c.pc = "failed"
        BY <2>1, <2>3, <1>0 DEF Goto, Last, Replace, Calls, Steps
      <3>2. Fit'
        BY <2>1, <2>3 DEF Fit
      <3> HIDE DEF c
      <3>3. QED  BY <3>1, <3>2, <1>A, NothingHeld
    <2>4. QED  BY <1>10, <2>2, <2>3 DEF CertificateRenew
  <1>11. CASE Return
    <2>1. calls # <<>> /\ calls' = Front(calls) /\ UNCHANGED files
      BY <1>11 DEF Return, Top
    <2>2. calls' # <<>> => Last(calls').pc = "wait"
      BY <2>1, <1>0, ReturnFacts
    <2>3. QED  BY <2>1, <2>2, <1>B, NothingHeld
  <1>12. CASE SetProgressHooks
    BY <1>12, <1>B, SameHeld DEF SetProgressHooks, files
  <1>13. CASE ProgressUpdate
    BY <1>13, <1>B, SameHeld DEF ProgressUpdate, files
  <1>14. CASE Crash
    BY <1>14, <1>B, NothingHeld DEF Crash
  <1>15. CASE KeyLost
    <2>1. Fit'
      BY <1>15, TlsAssumption DEF KeyLost, Fit, Keys, Torn, Missing, TypeInv, FilesOK
    <2>2. calls' # <<>> => Last(calls').pc = "wait"
      BY <1>15 DEF KeyLost, Event, Dispatching, Top
    <2>3. QED  BY <2>1, <2>2, NothingHeld
  <1>16. CASE CertificateLost
    <2>1. Fit'
      BY <1>16 DEF CertificateLost, Fit, TypeInv, FilesOK
    <2>2. calls' # <<>> => Last(calls').pc = "wait"
      BY <1>16 DEF CertificateLost, Event, Dispatching, Top
    <2>3. QED  BY <2>1, <2>2, NothingHeld
  <1>17. CASE Tick
    BY <1>17, <1>B, SameHeld DEF Tick, files
  <1>18. CASE UNCHANGED vars
    BY <1>18, <1>B, SameHeld DEF vars, files
  <1>19. QED
    BY <1>1, <1>2, <1>3, <1>4, <1>5, <1>6, <1>7, <1>8, <1>9, <1>10, <1>11, <1>12, <1>13, <1>14,
       <1>15, <1>16, <1>17, <1>18 DEF Next

(* If no key is saved in the second in which a certificate for another one was
   saved, the files a call leaves belong together: after any crash, loss and
   unfinished write, at any depth of nested calls, for any validity
   (epc_tls_get_server_credentials). *)
THEOREM PairSafe == ASSUME "same_second" \notin Hazards PROVE Spec => []PairFits
  <1>1. Init => TypeInv /\ PairInv
    BY TypeInit, PairInit
  <1>2. TypeInv /\ PairInv /\ [Next]_vars => (TypeInv /\ PairInv)'
    BY TypeStep, PairStep
  <1>3. PairInv => PairFits
    BY DEF PairInv, Held, HeldBy, PairFits, Top
  <1>4. QED  BY <1>1, <1>2, <1>3, PTL DEF Spec

-----------------------------------------------------------------------------
(* Progress windows. *)

(* There is at most the window of the hooks, and only in the operation of the
   innermost call. *)
WindowInv ==
    /\ windows = (IF hooks.kind = "window" THEN {hooks.context} \ {0} ELSE {})
    /\ pulses \subseteq windows
    /\ windows # {} => calls # <<>> /\ Last(calls).pc \in {"start", "wait"}

LEMMA WindowInit == ASSUME Init PROVE WindowInv
  BY DEF Init, WindowInv

(* The hooks are left alone, by a step that does not end an operation. *)
LEMMA SameWindows ==
    ASSUME WindowInv, UNCHANGED progress,
           windows # {} => calls' # <<>> /\ Last(calls').pc \in {"start", "wait"}
    PROVE  WindowInv'
  BY DEF WindowInv, progress

LEMMA WindowStep ==
    ASSUME "nested_progress" \notin Hazards, TypeInv, WindowInv, [Next]_vars
    PROVE  WindowInv'
  <1> DEFINE Past == {"load", "begin", "open", "write", "stat", "renew", "done", "failed"}
  <1>0. /\ calls \in Seq(Calls) /\ OthersWait(calls)
        /\ (calls # <<>> => Last(calls) \in Calls)
    BY LastFacts DEF TypeInv, CallsOK
  <1>A. ASSUME calls # <<>>, Last(calls).pc \in Past PROVE windows = {}
    BY <1>A DEF WindowInv
  <1>1. CASE GetServerCredentials
    <2>1. windows = {}
      BY <1>1 DEF GetServerCredentials, WindowInv
    <2>2. QED  BY <1>1, <2>1, SameWindows DEF GetServerCredentials
  <1>2. CASE KeyLoad
    BY <1>2, <1>A, SameWindows DEF KeyLoad, Top
  <1>3. CASE KeyNew
    <2>1. windows = {}
      BY <1>3, <1>A DEF KeyNew, Top
    <2>2. hooks.kind \in {"default", "own", "window"}
          /\ hooks \in [kind : {"default", "own", "window"}, context : {0} \cup Objects]
      BY DEF TypeInv, ProgressOK
    <2>3. CASE /\ ProgressBegin
               /\ calls' = [calls EXCEPT ![Len(calls)].pc = "start", ![Len(calls)].thread = "busy"]
      <3> DEFINE c == [Last(calls) EXCEPT !.pc = "start", !.thread = "busy"]
      <3>1. calls # <<>> /\ c \in Calls /\ calls' = Replace(calls, c) /\ c.pc = "start"
        BY <1>3, <1>0, <2>3 DEF KeyNew, Top, Last, Replace, Calls, Steps
      <3> HIDE DEF c
      <3>2. calls' # <<>> /\ Last(calls').pc = "start"
        BY <3>1, <1>0, ReplaceFacts
      <3>3. /\ windows' = (IF hooks'.kind = "window" THEN {hooks'.context} \ {0} ELSE {})
            /\ pulses' \subseteq windows'
        <4>1. PICK o \in Objects : ProgressBegin!(o)
          BY <2>3 DEF ProgressBegin
        <4>2. o # 0
          BY TlsAssumption DEF Objects
        <4>3. CASE hooks.kind = "window"
          BY <4>1, <4>2, <4>3, <2>1, <2>2 DEF WindowInv
        <4>4. CASE hooks.kind = "default"
          BY <4>1, <4>2, <4>4, <2>1, <2>2 DEF WindowInv
        <4>5. CASE hooks.kind = "own"
          BY <4>1, <4>2, <4>5, <2>1, <2>2 DEF WindowInv, progress
        <4>6. QED  BY <2>2, <4>3, <4>4, <4>5
      <3>4. QED  BY <3>2, <3>3 DEF WindowInv
    <2>4. CASE ProgressFlashes
      <3>1. windows' = {} /\ pulses' = {} /\ hooks'.kind = hooks.kind
        BY <2>1, <2>2, <2>4 DEF ProgressFlashes, WindowInv
      <3>2. hooks.kind = "window" => hooks'.context = 0
        BY <2>2, <2>4 DEF ProgressFlashes
      <3>3. QED  BY <3>1, <3>2 DEF WindowInv
    <2>5. QED  BY <1>3, <2>3, <2>4 DEF KeyNew
  <1>4. ASSUME NEW i \in 1..MaxDepth, KeyThread(i) PROVE WindowInv'
    <2>1. PICK rc \in {"success", "failure"} :
            calls' = [calls EXCEPT ![i].thread = rc, ![i].loop = QuitLoop(calls[i], rc)]
      BY <1>4 DEF KeyThread
    <2>2. i \in 1..Len(calls) /\ calls # <<>> /\ calls[i] \in Calls
      <3>1. i \in DOMAIN calls
        BY <1>4 DEF KeyThread
      <3>2. i \in 1..Len(calls)
        BY <3>1, <1>0
      <3>3. QED  BY <3>2, <1>0, ElementOfSeq, EmptySeq
    <2> DEFINE c == [calls[i] EXCEPT !.thread = rc, !.loop = QuitLoop(calls[i], rc)]
    <2>3. /\ c \in Calls /\ c.pc = calls[i].pc /\ c.key = calls[i].key /\ c.at = calls[i].at
          /\ calls' = Report(calls, i, c)
      BY <2>1, <2>2 DEF Calls, QuitLoop, Report
    <2> HIDE DEF c
    <2>4. calls' # <<>> /\ Last(calls').pc = Last(calls).pc
      BY <1>0, <2>2, <2>3, ReportFacts
    <2>5. UNCHANGED progress
      BY <1>4 DEF KeyThread
    <2>6. QED  BY <2>4, <2>5, SameWindows DEF WindowInv
  <1>5. CASE LoopRun
    <2> DEFINE c == [Last(calls) EXCEPT !.pc = "wait", !.loop = "running"]
    <2>1. calls # <<>> /\ c \in Calls /\ calls' = Replace(calls, c) /\ c.pc = "wait"
      BY <1>5, <1>0 DEF LoopRun, Top, Last, Replace, Calls, Steps
    <2> HIDE DEF c
    <2>2. calls' # <<>> /\ Last(calls').pc = "wait"
      BY <2>1, <1>0, ReplaceFacts
    <2>3. QED  BY <1>5, <2>2, SameWindows DEF LoopRun
  <1>6. CASE LoopReturns
    <2>1. ProgressEnd
      BY <1>6 DEF LoopReturns
    <2>2. windows' = {} /\ pulses' = {} /\ (hooks'.kind = "window" => hooks'.context = 0)
      BY <2>1 DEF ProgressEnd, Destroy, WindowInv, TypeInv, ProgressOK, progress
    <2>3. QED  BY <2>2 DEF WindowInv
  <1>7. CASE KeyOpen
    BY <1>7, <1>A, SameWindows DEF KeyOpen, Top
  <1>8. CASE KeyWrite
    BY <1>8, <1>A, SameWindows DEF KeyWrite, Top
  <1>9. CASE CertificateLoad
    BY <1>9, <1>A, SameWindows DEF CertificateLoad, Top
  <1>10. CASE CertificateRenew
    BY <1>10, <1>A, SameWindows DEF CertificateRenew, Top
  <1>11. CASE Return
    BY <1>11, <1>A, SameWindows DEF Return, Top
  <1>12. CASE SetProgressHooks
    BY <1>12 DEF SetProgressHooks, SetHooks, Destroy, WindowInv
  <1>13. CASE ProgressUpdate
    BY <1>13 DEF ProgressUpdate, WindowInv
  <1>14. CASE Crash
    BY <1>14 DEF Crash, WindowInv
  <1>15. CASE KeyLost
    BY <1>15, SameWindows DEF KeyLost, WindowInv
  <1>16. CASE CertificateLost
    BY <1>16, SameWindows DEF CertificateLost, WindowInv
  <1>17. CASE Tick
    BY <1>17, SameWindows DEF Tick, WindowInv
  <1>18. CASE UNCHANGED vars
    BY <1>18, SameWindows DEF vars, WindowInv
  <1>19. QED
    BY <1>1, <1>2, <1>3, <1>4, <1>5, <1>6, <1>7, <1>8, <1>9, <1>10, <1>11, <1>12, <1>13, <1>14,
       <1>15, <1>16, <1>17, <1>18 DEF Next

(* If no operation begins while the same hooks show another, every window and its
   timer go with the operation, whichever hooks are set in the middle of it
   (epc_shell_set_progress_hooks, epc_progress_window_end_cb). *)
THEOREM WindowsClose ==
    ASSUME "nested_progress" \notin Hazards PROVE Spec => []ProgressCloses
  <1>1. Init => TypeInv /\ WindowInv
    BY TypeInit, WindowInit
  <1>2. TypeInv /\ WindowInv /\ [Next]_vars => (TypeInv /\ WindowInv)'
    BY TypeStep, WindowStep
  <1>3. WindowInv => ProgressCloses
    BY DEF WindowInv, ProgressCloses
  <1>4. QED  BY <1>1, <1>2, <1>3, PTL DEF Spec

=============================================================================
