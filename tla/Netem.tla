------------------------------- MODULE Netem -------------------------------
(***************************************************************************)
(* The network emulation scripts: scripts/apply-netem.sh shapes an          *)
(* interface with a netem queueing discipline and a smaller MTU, and        *)
(* scripts/reset-netem.sh undoes it from the state file the first one left  *)
(* in /var/tmp/pqtls-netem.  Both run under `set -e`, one command at a      *)
(* time, and either may be interrupted between two commands.                *)
(***************************************************************************)
EXTENDS Naturals

CONSTANTS Interfaces,   \* network interfaces of the host
          Mtus,         \* MTU values
          Original,     \* the MTU every interface has before the first apply
          NoFile,       \* an interface without a state file
          Torn          \* a state file truncated and not yet written

(* Zero is not an MTU: it stands for "--mtu not given".                     *)
ASSUME NetemAssumption ==
  /\ Mtus \subseteq Nat \ {0} /\ Original \in Mtus
  /\ NoFile \notin Mtus /\ Torn \notin Mtus /\ NoFile # Torn

VARIABLES mtu,       \* MTU of each interface
          qdisc,     \* root queueing discipline: "default" or "netem"
          state,     \* state file: NoFile, Torn (truncated) or the saved MTU
          command,   \* the command the running script is at
          iface,     \* the interface it is treating
          todo,      \* reset --all: the interfaces still to treat
          want,      \* apply: conditions given, MTU given; reset: restore it
          before,    \* history: MTU before the first apply since the last reset
          applies,   \* history: applies that saved a state since then, up to 2
          ignored,   \* history: commands the last script at it failed and ignored
          exit       \* how the last script ended

netemVars == <<mtu, qdisc, state, command, iface, todo, want, before, applies, ignored, exit>>
history == <<before, applies, ignored>>

NoMtu == 0

NetemInit ==
  /\ mtu = [i \in Interfaces |-> Original]
  /\ qdisc = [i \in Interfaces |-> "default"]
  /\ state = [i \in Interfaces |-> NoFile]
  /\ command = "idle" /\ exit = "none"
  /\ iface \in Interfaces /\ todo = {}
  /\ want = [netem |-> FALSE, mtu |-> NoMtu, restore |-> FALSE]
  /\ before = mtu
  /\ applies = [i \in Interfaces |-> 0]
  /\ ignored = [i \in Interfaces |-> {}]

(* The running script goes on to command p, or ends.                        *)
Goto(p) == command' = p /\ UNCHANGED <<iface, todo, want, exit>>
End(code) == command' = "idle" /\ todo' = {} /\ exit' = code /\ UNCHANGED <<iface, want>>

(* `tc qdisc del ... root || true`: there may be nothing to delete, and a   *)
(* deletion that tc refuses is ignored just the same.                       *)
DeleteQdisc ==
  \/ /\ qdisc' = [qdisc EXCEPT ![iface] = "default"]
     /\ ignored' = [ignored EXCEPT ![iface] = {}]
  \/ /\ qdisc[iface] = "netem" /\ UNCHANGED qdisc
     /\ ignored' = [ignored EXCEPT ![iface] = {"tc"}]

---------------------------------------------------------------------------
(* apply-netem.sh.  The checks of its options change nothing; what they     *)
(* accept is an interface, netem conditions or none, and an MTU or none.    *)
Apply(i, netem, m) ==
  /\ command = "idle"
  /\ command' = "open" /\ iface' = i
  /\ want' = [netem |-> netem, mtu |-> m, restore |-> FALSE]
  /\ UNCHANGED <<mtu, qdisc, state, todo, history, exit>>

\* Mutant: the MTU is set before the state is saved.
OpenStateAfterMtu ==
  /\ command = "open"
  /\ state' = [state EXCEPT ![iface] = Torn]
  /\ mtu' = [mtu EXCEPT ![iface] = IF want.mtu # NoMtu THEN want.mtu ELSE @]
  /\ Goto("save")
  /\ UNCHANGED <<qdisc, history>>

(* The redirection truncates the state file before anything is written.     *)
OpenState ==
  /\ command = "open"
  /\ state' = [state EXCEPT ![iface] = Torn]
  /\ Goto("save")
  /\ UNCHANGED <<mtu, qdisc, history>>

\* Mutant: the MTU is saved after it was changed.
SaveStateLate ==
  /\ command = "save"
  /\ state' = [state EXCEPT ![iface] = IF want.mtu # NoMtu THEN want.mtu ELSE mtu[iface]]
  /\ before' = [before EXCEPT ![iface] = IF applies[iface] = 0 THEN mtu[iface] ELSE @]
  /\ applies' = [applies EXCEPT ![iface] = IF @ < 2 THEN @ + 1 ELSE @]
  /\ Goto("clear")
  /\ UNCHANGED <<mtu, qdisc, ignored>>

(* The state file receives the MTU the interface has now.                   *)
SaveState ==
  /\ command = "save"
  /\ state' = [state EXCEPT ![iface] = mtu[iface]]
  /\ before' = [before EXCEPT ![iface] = IF applies[iface] = 0 THEN mtu[iface] ELSE @]
  /\ applies' = [applies EXCEPT ![iface] = IF @ < 2 THEN @ + 1 ELSE @]
  /\ Goto("clear")
  /\ UNCHANGED <<mtu, qdisc, ignored>>

ClearQdisc ==
  /\ command = "clear"
  /\ DeleteQdisc
  /\ Goto("add")
  /\ UNCHANGED <<mtu, state, before, applies>>

(* tc adds no second root: conditions that were not deleted are in the way. *)
AddQdisc ==
  /\ command = "add"
  /\ want.netem => qdisc[iface] = "default"
  /\ qdisc' = [qdisc EXCEPT ![iface] = IF want.netem THEN "netem" ELSE @]
  /\ Goto("mtu")
  /\ UNCHANGED <<mtu, state, history>>

SetMtu ==
  /\ command = "mtu"
  /\ mtu' = [mtu EXCEPT ![iface] = IF want.mtu # NoMtu THEN want.mtu ELSE @]
  /\ End("applied")
  /\ UNCHANGED <<qdisc, state, history>>

(* tc refuses the conditions, or ip the MTU: the script dies where it       *)
(* stands, with what it did before still in force.                          *)
ApplyFails ==
  /\ \/ command = "add" /\ want.netem
     \/ command = "mtu" /\ want.mtu # NoMtu
  /\ End("apply failed")
  /\ UNCHANGED <<mtu, qdisc, state, history>>

---------------------------------------------------------------------------
(* reset-netem.sh for a set of interfaces: the one of --interface, or with  *)
(* --all every one that has a state file; --keep-mtu does not restore.      *)
Reset(is, restore) ==
  /\ command = "idle"
  /\ is = {i \in Interfaces : state[i] # NoFile} \/ \E i \in Interfaces : is = {i}
  /\ want' = [netem |-> FALSE, mtu |-> NoMtu, restore |-> restore]
  /\ IF is = {}
     THEN command' = "idle" /\ exit' = "reset" /\ UNCHANGED <<iface, todo>>
     ELSE /\ command' = "reset" /\ exit' = exit
          /\ iface' \in is /\ todo' = is \ {iface'}
  /\ UNCHANGED <<mtu, qdisc, state, history>>

ResetQdisc ==
  /\ command = "reset"
  /\ DeleteQdisc
  /\ Goto("restore")
  /\ UNCHANGED <<mtu, state, before, applies>>

(* The saved MTU is put back if there is one; ip failing to is ignored.     *)
RestoreMtu ==
  /\ command = "restore"
  /\ ~(want.restore /\ state[iface] = Torn)
  /\ \/ /\ mtu' = [mtu EXCEPT ![iface] =
                    IF want.restore /\ state[iface] # NoFile THEN state[iface] ELSE @]
        /\ UNCHANGED ignored
     \/ /\ want.restore /\ state[iface] # NoFile
        /\ UNCHANGED mtu
        /\ ignored' = [ignored EXCEPT ![iface] = @ \cup {"ip"}]
  /\ Goto("remove")
  /\ UNCHANGED <<qdisc, state, before, applies>>

(* grep finds no PREVIOUS_MTU in a truncated file, and with pipefail the    *)
(* assignment fails: `set -e` ends the whole script.                        *)
RestoreDies ==
  /\ command = "restore" /\ want.restore /\ state[iface] = Torn
  /\ End("reset failed")
  /\ UNCHANGED <<mtu, qdisc, state, history>>

\* Mutant: the whole state directory is removed.
RemoveEveryState ==
  /\ command = "remove"
  /\ state' = [i \in Interfaces |-> NoFile]
  /\ applies' = [applies EXCEPT ![iface] = 0]
  /\ IF todo = {}
     THEN End("reset")
     ELSE /\ command' = "reset" /\ iface' \in todo /\ todo' = todo \ {iface'}
          /\ UNCHANGED <<want, exit>>
  /\ UNCHANGED <<mtu, qdisc, before, ignored>>

(* The state file is removed, whatever was ignored, and reset_one returns   *)
(* to the loop.                                                             *)
RemoveState ==
  /\ command = "remove"
  /\ state' = [state EXCEPT ![iface] = NoFile]
  /\ applies' = [applies EXCEPT ![iface] = 0]
  /\ IF todo = {}
     THEN End("reset")
     ELSE /\ command' = "reset" /\ iface' \in todo /\ todo' = todo \ {iface'}
          /\ UNCHANGED <<want, exit>>
  /\ UNCHANGED <<mtu, qdisc, before, ignored>>

(* A signal, a lost session or a full disk ends the running script between  *)
(* two of its commands.                                                     *)
Interrupt ==
  /\ command # "idle"
  /\ End("interrupted")
  /\ UNCHANGED <<mtu, qdisc, state, history>>

NetemNext ==
  \/ \E i \in Interfaces, netem \in BOOLEAN, m \in Mtus \cup {NoMtu} : Apply(i, netem, m)
  \/ OpenState \/ SaveState \/ ClearQdisc \/ AddQdisc \/ SetMtu \/ ApplyFails
  \/ \E is \in SUBSET Interfaces, restore \in BOOLEAN : Reset(is, restore)
  \/ ResetQdisc \/ RestoreMtu \/ RestoreDies \/ RemoveState \/ Interrupt

NetemSpec == NetemInit /\ [][NetemNext]_netemVars

---------------------------------------------------------------------------
(* The values the scripts, the kernel and the state files can hold.         *)
NetemTypeOK ==
  /\ mtu \in [Interfaces -> Mtus]
  /\ qdisc \in [Interfaces -> {"default", "netem"}]
  /\ state \in [Interfaces -> Mtus \cup {NoFile, Torn}]
  /\ command \in {"idle", "open", "save", "clear", "add", "mtu", "reset", "restore", "remove"}
  /\ iface \in Interfaces /\ todo \subseteq Interfaces
  /\ want \in [netem : BOOLEAN, mtu : Mtus \cup {NoMtu}, restore : BOOLEAN]
  /\ before \in [Interfaces -> Mtus]
  /\ applies \in [Interfaces -> 0 .. 2]
  /\ ignored \in [Interfaces -> SUBSET {"tc", "ip"}]
  /\ exit \in {"none", "applied", "apply failed", "reset", "reset failed", "interrupted"}

(* `reset-netem.sh --all` finds every shaped interface: whatever was        *)
(* interrupted, an interface with netem conditions has a state file, and an *)
(* apply since the last reset is what shaped it.  The one exception is an   *)
(* interface whose conditions tc refused to delete: both scripts ignore     *)
(* that, and a reset then removes the state file of a shaped interface.     *)
ShapedIsListed ==
  \A i \in Interfaces :
    qdisc[i] = "netem" => \/ state[i] # NoFile /\ applies[i] > 0
                          \/ "tc" \in ignored[i]

(* A reset undoes an apply: when it removes the state file of an interface, *)
(* the netem conditions are gone, and if it restores and there was exactly  *)
(* one apply since the reset before, the MTU is the one from before that    *)
(* apply, however the scripts in between were interrupted.  Each half has   *)
(* the exception that tc, or ip, refused and the script went on.            *)
OneApplyIsUndone ==
  [][\A i \in Interfaces : (state[i] # NoFile /\ state'[i] = NoFile) =>
       /\ "tc" \notin ignored[i] => qdisc'[i] = "default"
       /\ (want.restore /\ applies[i] = 1 /\ "ip" \notin ignored[i]) => mtu'[i] = before[i]]_netemVars

(* The scripts change an interface's MTU only while a complete state file   *)
(* covers it: the save comes before the change, and the removal after.      *)
ChangeIsCovered ==
  [][\A i \in Interfaces : mtu'[i] # mtu[i] => state[i] \in Mtus]_netemVars
=============================================================================
