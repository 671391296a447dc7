----------------------------- MODULE KeyRotation -----------------------------
(***************************************************************************)
(* The instruction signing key on the control plane's disk: rotation and   *)
(* pruning (src/src/crypto/rotation.ts, run by crypto/cli.ts) and the      *)
(* application's start, which generates the key when it is missing         *)
(* (loadSecrets of src/src/crypto/secrets.ts).                             *)
(*                                                                         *)
(* A command is a process of its own, so its file operations interleave    *)
(* with those of another command and it may die between any two of them;   *)
(* nothing locks the directory.  The checks a command starts with are one  *)
(* step, and every rename, write and removal that follows is a step.  A    *)
(* key file holds a key, is absent, or is what a write that was cut off    *)
(* left behind; the modes of the files are left out.                       *)
(***************************************************************************)
EXTENDS Integers, FiniteSets

CONSTANTS
    Keys,           \* the keys that may be generated
    Absent, Torn,   \* what else a key's file may be
    Commands,       \* processes that may run at once
    MinOverlap,     \* MIN_OVERLAP_MS, an envelope's longest life
    Overlap,        \* DEFAULT_OVERLAP_MS, which the command line uses
    Faults,         \* bound: what may happen
    MaxTime         \* bound on the clock

FaultKinds == {"crash",     \* a command dies half way
               "slow",      \* time passes while a command runs
               "force"}     \* prune --force

ASSUME KeyRotationAssumption ==
    /\ Keys # {} /\ IsFiniteSet(Keys)
    /\ Absent \notin Keys /\ Torn \notin Keys \cup {Absent}
    /\ MinOverlap \in Nat \ {0} /\ Overlap \in Nat /\ Overlap >= MinOverlap
    /\ Faults \subseteq FaultKinds /\ MaxTime \in Nat

VARIABLES
    now,        \* Date.now()
    current,    \* instruction-signing.pem
    previous,   \* instruction-signing.previous.pem
    stamp,      \* instruction-signing.rotated-at
    command,    \* the step each process takes next and when it started
    generated,  \* history: the keys that have been generated
    left,       \* history: when each key stopped being the current one
    died        \* history: whether a command has died half way

vars == <<now, current, previous, stamp, command, generated, left, died>>

KeyFile == Keys \cup {Absent, Torn}

NoStamp == -1       \* no such file
TornStamp == 0      \* a file that holds no time
LongAgo == 1        \* the first digits of a time: a time long past
StartTime == Overlap + 2
NotYet == 0         \* in left

Steps == {"none", "move", "write", "stamp", "unlink", "unstamp", "generate"}

Idle == [step |-> "none", at |-> 0]

TypeOK ==
    /\ now \in Nat
    /\ current \in KeyFile /\ previous \in KeyFile
    /\ stamp \in Nat \cup {NoStamp}
    /\ command \in [Commands -> [step : Steps, at : Nat]]
    /\ generated \subseteq Keys
    /\ left \in [Keys -> Nat]
    /\ died \in BOOLEAN

Init ==
    /\ now = StartTime
    /\ current = Absent /\ previous = Absent /\ stamp = NoStamp
    /\ command = [c \in Commands |-> Idle]
    /\ generated = {}
    /\ left = [k \in Keys |-> NotYet]
    /\ died = FALSE

-----------------------------------------------------------------------------
(* What the files mean *)

(* rotationState refuses a stamp that is not a time.                        *)
StampReadable == stamp # TornStamp

(* fault: a previous key's file is enough *)
OverlapOpenWhileStamped == stamp > 0

(* overlapEndsAt is set and still ahead.                                    *)
OverlapOpen == stamp > 0 /\ now < stamp + Overlap

(* Whether acceptedInstructionKeys answers rather than throws.              *)
Readable ==
    /\ current \in Keys
    /\ StampReadable
    /\ OverlapOpen => previous # Torn

(* acceptedInstructionKeys; nothing is accepted while it throws.            *)
Accepted ==
    IF ~Readable THEN {}
    ELSE {current} \cup (IF OverlapOpen THEN {previous} \ {Absent} ELSE {})

Runs(c, step) == command[c].step = step
Goto(c, step) == command' = [command EXCEPT ![c].step = step]
Start(c, step) == command' = [command EXCEPT ![c] = [step |-> step, at |-> now]]
Stop(c) == command' = [command EXCEPT ![c] = Idle]

(* The current key changes: when the old one left.                          *)
Leave == left' = IF current \in Keys THEN [left EXCEPT ![current] = now] ELSE left

Quiet == \A c \in Commands : Runs(c, "none")

-----------------------------------------------------------------------------
(* rotate *)

(* fault: an open overlap does not stop the next rotation *)
RotateChecksUnchained(c) ==
    /\ Runs(c, "none")
    /\ Readable
    /\ Start(c, "move")
    /\ UNCHANGED <<now, current, previous, stamp, generated, left, died>>

(* The command line reads the accepted keys, then rotateInstructionKey      *)
(* looks for a key to rotate and refuses while an overlap is open.  Its     *)
(* `now` is read here.                                                      *)
RotateChecks(c) ==
    /\ Runs(c, "none")
    /\ Readable
    /\ previous # Absent => ~OverlapOpen
    /\ Start(c, "move")
    /\ UNCHANGED <<now, current, previous, stamp, generated, left, died>>

(* renameSync(paths.current, paths.previous), which fails if the file has   *)
(* gone in the meantime.                                                    *)
MoveOutgoing(c) ==
    /\ Runs(c, "move")
    /\ IF current = Absent
       THEN Stop(c) /\ UNCHANGED <<current, previous, left>>
       ELSE /\ previous' = current
            /\ current' = Absent
            /\ Leave
            /\ Goto(c, "write")
    /\ UNCHANGED <<now, stamp, generated, died>>

(* writeFileSync(paths.current, ...), whatever the file holds by now.       *)
WriteNew(c) ==
    /\ Runs(c, "write")
    /\ \E k \in Keys \ generated : current' = k /\ generated' = generated \cup {k}
    /\ Leave
    /\ Goto(c, "stamp")
    /\ UNCHANGED <<now, previous, stamp, died>>

(* fault: the stamp counts from the end of the command *)
WriteStampRelative(c) ==
    /\ Runs(c, "stamp")
    /\ stamp' = command[c].at - now
    /\ Stop(c)
    /\ UNCHANGED <<now, current, previous, generated, left, died>>

(* The stamp last, because it is what opens the overlap.                    *)
WriteStamp(c) ==
    /\ Runs(c, "stamp")
    /\ stamp' = command[c].at
    /\ Stop(c)
    /\ UNCHANGED <<now, current, previous, generated, left, died>>

-----------------------------------------------------------------------------
(* prune *)

PruneChecks(c) ==
    /\ Runs(c, "none")
    /\ previous # Absent
    /\ StampReadable
    /\ OverlapOpen => "force" \in Faults
    /\ Start(c, "unlink")
    /\ UNCHANGED <<now, current, previous, stamp, generated, left, died>>

RemovePrevious(c) ==
    /\ Runs(c, "unlink")
    /\ previous' = Absent
    /\ Goto(c, "unstamp")
    /\ UNCHANGED <<now, current, stamp, generated, left, died>>

RemoveStamp(c) ==
    /\ Runs(c, "unstamp")
    /\ stamp' = NoStamp
    /\ Stop(c)
    /\ UNCHANGED <<now, current, previous, generated, left, died>>

-----------------------------------------------------------------------------
(* The application starts *)

(* loadSecrets finds no key.                                                *)
BootFindsNoKey(c) ==
    /\ Runs(c, "none")
    /\ current = Absent
    /\ Start(c, "generate")
    /\ UNCHANGED <<now, current, previous, stamp, generated, left, died>>

(* ... and writes one.                                                      *)
BootGenerates(c) ==
    /\ Runs(c, "generate")
    /\ \E k \in Keys \ generated : current' = k /\ generated' = generated \cup {k}
    /\ Leave
    /\ Stop(c)
    /\ UNCHANGED <<now, previous, stamp, died>>

-----------------------------------------------------------------------------

(* A command dies, perhaps in the middle of the write it was at: the file   *)
(* is truncated first and then filled.                                      *)
Crash(c) ==
    /\ "crash" \in Faults
    /\ ~Runs(c, "none")
    /\ \/ UNCHANGED <<current, stamp, left>>
       \/ /\ Runs(c, "write") \/ Runs(c, "generate")
          /\ current' = Torn
          /\ Leave
          /\ UNCHANGED stamp
       \/ /\ Runs(c, "stamp")
          /\ stamp' \in {TornStamp, LongAgo}
          /\ UNCHANGED <<current, left>>
    /\ Stop(c)
    /\ died' = TRUE
    /\ UNCHANGED <<now, previous, generated>>

Tick ==
    /\ now < MaxTime
    /\ Quiet \/ "slow" \in Faults
    /\ now' = now + 1
    /\ UNCHANGED <<current, previous, stamp, command, generated, left, died>>

Next ==
    \/ \E c \in Commands :
          \/ RotateChecks(c) \/ MoveOutgoing(c) \/ WriteNew(c) \/ WriteStamp(c)
          \/ PruneChecks(c) \/ RemovePrevious(c) \/ RemoveStamp(c)
          \/ BootFindsNoKey(c) \/ BootGenerates(c)
          \/ Crash(c)
    \/ Tick

Spec == Init /\ [][Next]_vars
-----------------------------------------------------------------------------
(* Properties of every interleaving *)

(* A key is accepted after it left only for as long as the overlap of its   *)
(* own rotation lasts, whatever stamp an earlier one left behind.           *)
RetiredInTime ==
    \A k \in Accepted : left[k] # NotYet => now < left[k] + Overlap

-----------------------------------------------------------------------------
(* Of one command at a time                                                 *)

(* An instruction signed with the outgoing key just before a rotation is    *)
(* accepted for as long as it may live, if no command has died.             *)
OutgoingStaysAccepted ==
    Quiet /\ ~died => \A k \in Keys :
        left[k] # NotYet /\ now < left[k] + MinOverlap => k \in Accepted

-----------------------------------------------------------------------------
(* What the comments promise                                                *)

(* A rotation that died before it wrote the new key leaves an installation  *)
(* that accepts nothing until an operator repairs it.                       *)
HalfRotated == current = Absent /\ previous # Absent

HalfRotatedStaysRefused ==
    [][(HalfRotated /\ \A c \in Commands : ~Runs(c, "write")) => (current' = Absent)]_vars

(* What a rotation writes over is not lost.                                 *)
RotationOverwritesNothing ==
    [][(current \in Keys /\ \E c \in Commands : Runs(c, "write"))
         => (current \in {current', previous'})]_vars

(* The key whose overlap has not ended is there to be recovered.            *)
OutgoingOnDisk ==
    \A k \in Keys :
        left[k] # NotYet /\ now < left[k] + MinOverlap => previous = k
=============================================================================
