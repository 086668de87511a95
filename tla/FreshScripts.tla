---------------------------- MODULE FreshScripts ----------------------------
(***************************************************************************)
(* What the compiled-script cache promises when it checks a script's       *)
(* metadata on every lookup: it is invisible.  A request that gets a       *)
(* script gets one compiled from a version the file had at some moment of  *)
(* the request, as if it had read and compiled the file itself.            *)
(***************************************************************************)
EXTENDS Integers

CONSTANTS Requests,    \* requests, each for one script
          Paths,       \* script files
          MaxVersion   \* bound on the edits of a file

VARIABLES
  last,    \* the newest version of each file; 0 for a file never written
  file,    \* the version a file has now; 0 when it does not exist
  since,   \* the oldest version a request may get; 0 before it starts
  script,  \* the path the request asked for
  answer   \* 0 while the request runs, its version, or Failed

NoScript == "noscript"
Failed == -1

Init ==
  /\ last = [p \in Paths |-> 0]
  /\ file = [p \in Paths |-> 0]
  /\ since = [r \in Requests |-> 0]
  /\ script = [r \in Requests |-> NoScript]
  /\ answer = [r \in Requests |-> 0]

\* Someone edits a file, or removes it.
Edit(p) ==
  /\ last[p] < MaxVersion
  /\ last' = [last EXCEPT ![p] = @ + 1]
  /\ file' = [file EXCEPT ![p] = last[p] + 1]
  /\ UNCHANGED <<since, script, answer>>

Delete(p) ==
  /\ file' = [file EXCEPT ![p] = 0]
  /\ UNCHANGED <<last, since, script, answer>>

\* The oldest version that is current from now on.
Oldest(p) == IF file[p] = 0 THEN last[p] + 1 ELSE file[p]

Ask(r, p) ==
  /\ script[r] = NoScript
  /\ script' = [script EXCEPT ![r] = p]
  /\ since' = [since EXCEPT ![r] = Oldest(p)]
  /\ UNCHANGED <<last, file, answer>>

Answer(r, v) ==
  /\ script[r] # NoScript /\ answer[r] = 0
  /\ v = Failed \/ v \in since[r] .. last[script[r]]
  /\ answer' = [answer EXCEPT ![r] = v]
  /\ UNCHANGED <<last, file, since, script>>

Next ==
  \/ \E p \in Paths : Edit(p) \/ Delete(p)
  \/ \E r \in Requests : \/ \E p \in Paths : Ask(r, p)
                         \/ \E v \in 1 .. MaxVersion \cup {Failed} : Answer(r, v)

Spec == Init /\ [][Next]_<<last, file, since, script, answer>>
=============================================================================
