-------------------------------- MODULE Tls --------------------------------
(***************************************************************************)
(* The credentials of a server (src/libepc/tls.c) and what is shown while  *)
(* a key is generated: the progress hooks (src/libepc/shell.c) with the    *)
(* window that may implement them (src/libepc-ui/progress-window.c).       *)
(*                                                                         *)
(* epc_tls_get_server_credentials works on two files that outlive the      *)
(* process: the private key, written in place, and the certificate, put in *)
(* place at once.  Generating a key runs a thread, and a main loop that    *)
(* waits for it.  That loop lets the application ask for credentials again *)
(* before the first call has returned; calls holds the unfinished calls,   *)
(* the innermost last.  The process may crash between any two steps, and   *)
(* the files may be lost or damaged.                                       *)
(*                                                                         *)
(* Keys are numbered as they are made.  A certificate is the key it was    *)
(* signed with and its period; one for another host, or one that cannot be *)
(* read, is as good as none.                                               *)
(***************************************************************************)
EXTENDS Integers, SequencesExt, FiniteSets

CONSTANTS
    Hazards,    \* what may happen besides ordinary operation
    Validity,   \* seconds a certificate remains valid
    MaxDepth,   \* bound: unfinished calls
    MaxTime,    \* bound: seconds that pass by themselves
    MaxEvents   \* bound: calls, losses, crashes and changes of the hooks

(* fast_thread: a key may be finished before the loop runs; same_second: a key
   may be saved in the second a certificate for another one was saved in;
   nested_progress: an operation may begin while the same hooks show another. *)
AllHazards == {"fast_thread", "same_second", "nested_progress"}

ASSUME TlsAssumption ==
    /\ Hazards \subseteq AllHazards
    /\ Validity \in Nat
    /\ MaxDepth \in Nat
    /\ MaxTime \in Nat
    /\ MaxEvents \in Nat

VARIABLES
    now,       \* the clock, in seconds like the times of files
    keyFile,   \* the private key file
    crtFile,   \* the certificate file
    made,      \* keys generated
    calls,     \* unfinished calls of epc_tls_get_server_credentials
    hooks,     \* the progress hooks and their context
    windows,   \* progress windows there are
    pulses,    \* windows whose progress bar is moved by a timer
    titles,    \* titles copied by the default hooks
    fault,     \* a title was freed twice
    budget     \* events left

files == <<keyFile, crtFile>>
progress == <<hooks, windows, pulses, titles>>
vars == <<now, files, made, calls, progress, fault, budget>>

Missing == 0
Torn == -1
Keys == 1..MaxEvents

(* What the context of a set of hooks points to: a title or a window. *)
Objects == 1..(MaxDepth + MaxEvents)

Steps == {"load", "begin", "start", "wait", "open", "write", "stat", "renew", "done", "failed"}

(* key: the local variable; loop: the GMainLoop of epc_tls_private_key_new;
   thread: the generator's; at: when the certificate was judged. *)
Calls == [pc : Steps, key : {Missing} \cup Keys, loop : {"new", "running", "stopped"},
          thread : {"none", "busy", "success", "failure"}, at : Nat]

NewCall == [pc |-> "load", key |-> Missing, loop |-> "new", thread |-> "none", at |-> 0]

TypeOK ==
    /\ now \in Nat
    /\ keyFile \in [key : {Missing, Torn} \cup Keys, mtime : Nat]
    /\ crtFile \in [key : {Missing} \cup Keys, from : Nat, until : Nat, mtime : Nat]
    /\ made \in 0..MaxEvents
    /\ calls \in Seq(Calls)
    /\ hooks \in [kind : {"default", "own", "window"}, context : {0} \cup Objects]
    /\ windows \subseteq Objects
    /\ pulses \subseteq Objects
    /\ titles \subseteq Objects
    /\ fault \in {"none", "freed"}
    /\ budget \in 0..MaxEvents

Init ==
    /\ now = 0
    /\ keyFile = [key |-> Missing, mtime |-> 0]
    /\ crtFile = [key |-> Missing, from |-> 0, until |-> 0, mtime |-> 0]
    /\ made = 0
    /\ calls = <<>>
    /\ hooks = [kind |-> "default", context |-> 0]
    /\ windows = {}
    /\ pulses = {}
    /\ titles = {}
    /\ fault = "none"
    /\ budget = MaxEvents

-----------------------------------------------------------------------------
(* Where control is. *)

Top(pc) == fault = "none" /\ calls # <<>> /\ Last(calls).pc = pc

Goto(pc) == calls' = [calls EXCEPT ![Len(calls)].pc = pc]

(* The application's main loop runs, or the one that waits for a key. *)
Dispatching == fault = "none" /\ (calls = <<>> \/ Top("wait"))

Event == Dispatching /\ budget > 0 /\ budget' = budget - 1

-----------------------------------------------------------------------------
(* Progress hooks. *)

FreshObject(o) == o \notin windows \cup titles /\ \A p \in 1..(o - 1) : p \in windows \cup titles

(* epc_shell_progress_begin, with the update that follows. *)
ProgressBegin ==
    \E o \in Objects :
        /\ FreshObject(o)
        /\ CASE hooks.kind = "default" ->
                  /\ hooks' = [hooks EXCEPT !.context = o]
                  /\ titles' = titles \cup {o}
                  /\ UNCHANGED <<windows, pulses>>
             [] hooks.kind = "window" ->
                  /\ hooks' = [hooks EXCEPT !.context = o]
                  /\ windows' = windows \cup {o}
                  /\ pulses' = pulses \cup {o}
                  /\ UNCHANGED titles
             [] OTHER -> UNCHANGED progress

(* Mutant: the timer is left when its window goes. *)
DestroyKeepingTimer(w) ==
    /\ windows' = windows \ {w}
    /\ UNCHANGED pulses

(* gtk_widget_destroy, with epc_progress_window_dispose. *)
Destroy(w) ==
    /\ windows' = windows \ {w}
    /\ pulses' = pulses \ {w}

(* epc_shell_progress_end; the default hooks keep the pointer. *)
ProgressEnd ==
    CASE hooks.kind = "default" ->
           /\ titles' = titles \ {hooks.context}
           /\ fault' = IF hooks.context \in titles \cup {0} THEN fault ELSE "freed"
           /\ UNCHANGED <<hooks, windows, pulses>>
      [] hooks.kind = "window" ->
           /\ hooks' = [hooks EXCEPT !.context = 0]
           /\ Destroy(hooks.context)
           /\ UNCHANGED <<titles, fault>>
      [] OTHER -> UNCHANGED <<progress, fault>>

(* An operation that fails at once: its title is freed again and its window
   destroyed before anything else runs. *)
ProgressFlashes ==
    /\ \E o \in Objects :
         /\ FreshObject(o)
         /\ hooks' = [hooks EXCEPT !.context = CASE hooks.kind = "default" -> o
                                                [] hooks.kind = "window" -> 0
                                                [] OTHER -> @]
    /\ UNCHANGED <<windows, pulses, titles>>

(* epc_shell_set_progress_hooks, epc_progress_window_install: the context of the
   old hooks is destroyed, in the middle of an operation, too. *)
SetHooks(kind) ==
    /\ hooks' = [kind |-> kind, context |-> 0]
    /\ IF hooks.kind = "window" THEN Destroy(hooks.context) ELSE UNCHANGED <<windows, pulses>>
    /\ UNCHANGED titles

SetProgressHooks ==
    /\ Event
    /\ \E kind \in {"default", "own", "window"} : SetHooks(kind)
    /\ UNCHANGED <<now, files, made, calls, fault>>

(* epc_shell_progress_update with the window: known progress stops the timer,
   unknown progress starts it. *)
ProgressUpdate ==
    /\ Event
    /\ hooks.kind = "window"
    /\ hooks.context # 0
    /\ \/ pulses' = pulses \ {hooks.context}
       \/ pulses' = pulses \cup {hooks.context}
    /\ UNCHANGED <<now, files, made, calls, hooks, windows, titles, fault>>

-----------------------------------------------------------------------------
(* epc_tls_get_server_credentials. *)

Readable(f) == f.key \in Keys

(* The application, also from the loop that waits for a key, needs credentials.
   With hooks of its own it may show several operations. *)
GetServerCredentials ==
    /\ Event
    /\ Len(calls) < MaxDepth
    /\ (calls # <<>> /\ hooks.context # 0) => "nested_progress" \in Hazards
    /\ calls' = Append(calls, NewCall)
    /\ UNCHANGED <<now, files, made, progress, fault>>

(* epc_tls_private_key_load. *)
KeyLoad ==
    /\ Top("load")
    /\ calls' = IF Readable(keyFile)
                THEN [calls EXCEPT ![Len(calls)].pc = "stat", ![Len(calls)].key = keyFile.key]
                ELSE [calls EXCEPT ![Len(calls)].pc = "begin"]
    /\ UNCHANGED <<now, files, made, progress, fault, budget>>

(* epc_tls_private_key_new up to g_main_loop_run, or to its end if there is no
   memory for a key. *)
KeyNew ==
    /\ Top("begin")
    /\ \/ /\ ProgressBegin
          /\ calls' = [calls EXCEPT ![Len(calls)].pc = "start", ![Len(calls)].thread = "busy"]
       \/ ProgressFlashes /\ Goto("failed")
    /\ UNCHANGED <<now, files, made, fault, budget>>

(* Mutant: the thread forgets to quit the loop when it fails. *)
QuitOnSuccess(call, rc) ==
    IF call.loop = "running" /\ rc = "success" THEN "stopped" ELSE call.loop

(* g_main_loop_quit: of no effect on a loop that does not run yet. *)
QuitLoop(call, rc) == IF call.loop = "running" THEN "stopped" ELSE call.loop

(* epc_tls_private_key_thread. *)
KeyThread(i) ==
    /\ fault = "none"
    /\ i \in DOMAIN calls
    /\ calls[i].thread = "busy"
    /\ calls[i].loop = "running" \/ "fast_thread" \in Hazards
    /\ \E rc \in {"success", "failure"} :
         calls' = [calls EXCEPT ![i].thread = rc, ![i].loop = QuitLoop(calls[i], rc)]
    /\ UNCHANGED <<now, files, made, progress, fault, budget>>

(* g_main_loop_run. *)
LoopRun ==
    /\ Top("start")
    /\ calls' = [calls EXCEPT ![Len(calls)].pc = "wait", ![Len(calls)].loop = "running"]
    /\ UNCHANGED <<now, files, made, progress, fault, budget>>

(* The loop returns; the operation ends, and there is a key or an error. *)
LoopReturns ==
    /\ Top("wait")
    /\ Last(calls).loop = "stopped"
    /\ ProgressEnd
    /\ IF Last(calls).thread = "success"
       THEN /\ made' = made + 1
            /\ calls' = [calls EXCEPT ![Len(calls)].pc = "open", ![Len(calls)].key = made']
       ELSE /\ Goto("failed")
            /\ UNCHANGED made
    /\ UNCHANGED <<now, files, budget>>

(* epc_tls_private_key_save empties the file, or fails and removes it. *)
KeyOpen ==
    /\ Top("open")
    /\ \/ keyFile' = [key |-> Torn, mtime |-> now] /\ Goto("write")
       \/ keyFile' = [key |-> Missing, mtime |-> 0] /\ Goto("failed")
    /\ UNCHANGED <<now, crtFile, made, progress, fault, budget>>

(* Mutant: the file keeps a time before the key was written. *)
SavedEarly(k, t) == [key |-> k, mtime |-> t - 1]

Saved(k, t) == [key |-> k, mtime |-> t]

(* It writes the key, in this second or the next, or fails and removes the file. *)
KeyWrite ==
    /\ Top("write")
    /\ \/ /\ now' \in {now, now + 1}
          /\ (crtFile.key # Missing /\ "same_second" \notin Hazards) => crtFile.mtime < now'
          /\ keyFile' = Saved(Last(calls).key, now')
          /\ Goto("stat")
       \/ keyFile' = [key |-> Missing, mtime |-> 0] /\ Goto("failed") /\ UNCHANGED now
    /\ UNCHANGED <<crtFile, made, progress, fault, budget>>

(* Mutant: any certificate of the right period is taken. *)
FoundByPeriod == crtFile.key # Missing /\ crtFile.from <= now /\ now <= crtFile.until

(* The certificate file is not older than the key file, can be read, is for this
   host, activated and not expired. *)
CertificateFound ==
    /\ keyFile.key # Missing
    /\ crtFile.key # Missing
    /\ keyFile.mtime <= crtFile.mtime
    /\ crtFile.from <= now
    /\ now <= crtFile.until

CertificateLoad ==
    /\ Top("stat")
    /\ calls' = [calls EXCEPT ![Len(calls)].pc = IF CertificateFound THEN "done" ELSE "renew",
                              ![Len(calls)].at = now]
    /\ UNCHANGED <<now, files, made, progress, fault, budget>>

(* epc_tls_certificate_new and epc_tls_certificate_save, which may fail. *)
CertificateRenew ==
    /\ Top("renew")
    /\ \/ /\ crtFile' = [key |-> Last(calls).key, from |-> now, until |-> now + Validity,
                         mtime |-> now]
          /\ calls' = [calls EXCEPT ![Len(calls)].pc = "done", ![Len(calls)].at = now]
       \/ /\ Goto("failed")
          /\ UNCHANGED crtFile
    /\ UNCHANGED <<now, keyFile, made, progress, fault, budget>>

(* The caller gets the names of both files, or an error. *)
Return ==
    /\ Top("done") \/ Top("failed")
    /\ calls' = Front(calls)
    /\ UNCHANGED <<now, files, made, progress, fault, budget>>

-----------------------------------------------------------------------------
(* What happens to processes and files. *)

Crash ==
    /\ fault = "none"
    /\ calls # <<>>
    /\ budget > 0
    /\ budget' = budget - 1
    /\ calls' = <<>>
    /\ hooks' = [kind |-> "default", context |-> 0]
    /\ windows' = {}
    /\ pulses' = {}
    /\ titles' = {}
    /\ UNCHANGED <<now, files, made, fault>>

KeyLost ==
    /\ Event
    /\ keyFile.key # Missing
    /\ \E k \in {Missing, Torn} : keyFile' = [keyFile EXCEPT !.key = k]
    /\ UNCHANGED <<now, crtFile, made, calls, progress, fault>>

CertificateLost ==
    /\ Event
    /\ crtFile.key # Missing
    /\ crtFile' = [crtFile EXCEPT !.key = Missing]
    /\ UNCHANGED <<now, keyFile, made, calls, progress, fault>>

Tick ==
    /\ fault = "none"
    /\ now < MaxTime
    /\ now' = now + 1
    /\ UNCHANGED <<files, made, calls, progress, fault, budget>>

Next ==
    \/ GetServerCredentials
    \/ KeyLoad
    \/ KeyNew
    \/ \E i \in 1..MaxDepth : KeyThread(i)
    \/ LoopRun
    \/ LoopReturns
    \/ KeyOpen
    \/ KeyWrite
    \/ CertificateLoad
    \/ CertificateRenew
    \/ Return
    \/ SetProgressHooks
    \/ ProgressUpdate
    \/ Crash
    \/ KeyLost
    \/ CertificateLost
    \/ Tick

Spec == Init /\ [][Next]_vars

-----------------------------------------------------------------------------
(* What is promised. *)

(* A call that succeeds leaves a key that can be read and the certificate made
   for it, valid when it was looked at, whatever files, crashes or unfinished
   writes earlier calls left, and although the call never compares the two
   ("New certificates and keys are generated, when the files cannot be found,
   or the existing files contain invalid or expired information",
   epc_tls_get_server_credentials). *)
PairFits ==
    Top("done") => /\ keyFile.key = Last(calls).key
                   /\ crtFile.key = keyFile.key
                   /\ crtFile.from <= Last(calls).at
                   /\ Last(calls).at <= crtFile.until

(* Whatever ends an operation, a replacement of its hooks included, closes its
   window, and no timer moves the bar of a window that is gone
   (epc_progress_window_end_cb, epc_progress_window_dispose). *)
ProgressCloses ==
    /\ pulses \subseteq windows
    /\ calls = <<>> => windows = {}

-----------------------------------------------------------------------------
(* Liveness. *)

(* Code runs on, loops run what is pending, and the generator's thread finishes. *)
Fairness ==
    /\ WF_vars(KeyLoad) /\ WF_vars(KeyNew) /\ WF_vars(LoopRun) /\ WF_vars(LoopReturns)
    /\ WF_vars(KeyOpen) /\ WF_vars(KeyWrite) /\ WF_vars(CertificateLoad)
    /\ WF_vars(CertificateRenew) /\ WF_vars(Return)
    /\ \A i \in 1..MaxDepth : WF_vars(KeyThread(i))

FairSpec == Spec /\ Fairness

(* Every call returns, with credentials or an error, also one in whose loop the
   application made another ("Key generation takes place in a separate
   background thread, whilst the calling thread waits in a GMainLoop",
   epc_tls_private_key_new). *)
CallsReturn == (calls # <<>> /\ fault = "none") ~> (calls = <<>> \/ fault # "none")

=============================================================================
