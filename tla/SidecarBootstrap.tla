-------------------------- MODULE SidecarBootstrap --------------------------
(***************************************************************************)
(* The search for etw-extract.exe (native/sidecar_bootstrap.py).  The      *)
(* threads of all servers of one version share one place for the           *)
(* executable and one temporary file beside it: a thread that does not     *)
(* find the executable downloads it into the temporary file, checks it     *)
(* against the digest if there is one to be had, and renames it.           *)
(*                                                                         *)
(* The files behave as on Windows: a file that is open for writing, or     *)
(* that runs, can be neither removed nor renamed nor replaced, and opening *)
(* it for writing once more truncates it under the first writer.           *)
(***************************************************************************)
EXTENDS Naturals

CONSTANTS
  Resolver,  \* the threads that look for the executable
  Blocks     \* length of the executable, in blocks

ASSUME BlocksAssumption == Blocks \in Nat \ {0}

VARIABLES
  setting,   \* [Resolver -> the environment of its process]
  binary,    \* etw-extract.exe: the blocks of it that are in the file, or Absent
  partial,   \* etw-extract.exe.tmp, likewise
  at,        \* [Resolver -> where resolve_sidecar_path stands]
  written,   \* [Resolver -> blocks it has written]
  answer,    \* [Resolver -> what its last call did, or is about to raise]
  touched    \* history: [Resolver -> has another truncated, removed or renamed the
             \* temporary file since this one opened it, or found it whole?]

bootVars == <<setting, binary, partial, at, written, answer, touched>>
files == <<binary, partial>>

Whole  == 1 .. Blocks
Absent == {0}    \* no file: blocks are numbered from 1

\* ETW_MCP_DOTNET_SIDECAR unset, naming a file, or naming none, and with
\* ETW_MCP_NO_AUTO_DOWNLOAD beside it.
Settings == {"unset", "named", "misnamed", "blocked"}
Stops   == {"idle", "connect", "write", "verify", "install", "undo", "runs"}
Answers  == {"none", "path", "RuntimeError", "OSError"}

BootInit ==
  /\ setting \in [Resolver -> Settings]
  /\ binary = Absent /\ partial = Absent
  /\ at = [r \in Resolver |-> "idle"]
  /\ written = [r \in Resolver |-> 0]
  /\ answer = [r \in Resolver |-> "none"]
  /\ touched = [r \in Resolver |-> FALSE]

Goto(r, from, to) == at[r] = from /\ at' = [at EXCEPT ![r] = to]

Answered(r, what) == answer' = [answer EXCEPT ![r] = what]

\* What the others see when r truncates, removes or renames the temporary file.
Touch(r, own) == touched' = [q \in Resolver |-> IF q = r THEN own ELSE TRUE]

HeldBy(q) == at[q] = "write"

\* unlink and rename of the temporary file fail while another writes into it.
Held(r) == \E q \in Resolver \ {r} : HeldBy(q)

InUse == \E q \in Resolver : at[q] = "runs"

\* resolve_sidecar_path: the named file, the file of an earlier download, or a
\* download, whichever is allowed.
ReturnNamed(r) ==
  /\ setting[r] = "named"
  /\ at[r] = "idle" /\ Answered(r, "path")
  /\ UNCHANGED <<setting, files, at, written, touched>>

ReturnCached(r) ==
  /\ setting[r] \in {"unset", "blocked"} /\ binary # Absent
  /\ Goto(r, "idle", "runs") /\ Answered(r, "path")
  /\ UNCHANGED <<setting, files, written, touched>>

Refuse(r) ==
  /\ setting[r] = "misnamed" \/ (setting[r] = "blocked" /\ binary = Absent)
  /\ at[r] = "idle" /\ Answered(r, "RuntimeError")
  /\ UNCHANGED <<setting, files, at, written, touched>>

StartFetch(r) ==
  /\ setting[r] = "unset" /\ binary = Absent
  /\ Goto(r, "idle", "connect") /\ Answered(r, "none")
  /\ UNCHANGED <<setting, files, written, touched>>

\* urlretrieve opens the file when the server has answered, and writes the
\* blocks in their order.
OpenPartial(r) ==
  /\ Goto(r, "connect", "write")
  /\ partial' = {} /\ written' = [written EXCEPT ![r] = 0] /\ Touch(r, FALSE)
  /\ UNCHANGED <<setting, binary, answer>>

WriteBlock(r) ==
  /\ at[r] = "write" /\ written[r] < Blocks
  /\ partial' = partial \union {written[r] + 1}
  /\ written' = [written EXCEPT ![r] = @ + 1]
  /\ UNCHANGED <<setting, binary, at, answer, touched>>

CompleteFetch(r) ==
  /\ written[r] = Blocks /\ Goto(r, "write", "verify")
  /\ UNCHANGED <<setting, files, written, answer, touched>>

\* Mutant: the exception of a broken transfer is only logged.
BreakFetchSwallowed(r) ==
  /\ at[r] \in {"connect", "write"}
  /\ at' = [at EXCEPT ![r] = "verify"] /\ UNCHANGED answer
  /\ UNCHANGED <<setting, files, written, touched>>

\* No answer, a broken or a short transfer: the except clause closes the file.
BreakFetch(r) ==
  /\ at[r] \in {"connect", "write"}
  /\ at' = [at EXCEPT ![r] = "undo"] /\ Answered(r, "RuntimeError")
  /\ UNCHANGED <<setting, files, written, touched>>

\* unlink; an absent file is no error, a file held by another raises what
\* replaces the exception that is being handled.
Undo(r) ==
  /\ Goto(r, "undo", "idle")
  /\ IF Held(r) THEN Answered(r, "OSError") /\ UNCHANGED <<partial, touched>>
     ELSE partial' = Absent /\ Touch(r, touched[r]) /\ UNCHANGED answer
  /\ UNCHANGED <<setting, binary, written>>

\* _try_verify_sha256 without a digest: not published, or not to be had.
SkipVerify(r) ==
  /\ Goto(r, "verify", "install")
  /\ UNCHANGED <<setting, files, written, answer, touched>>

\* ... and with one.
Verify(r) ==
  /\ at[r] = "verify"
  /\ IF partial = Whole
     THEN /\ at' = [at EXCEPT ![r] = "install"]
          /\ touched' = [touched EXCEPT ![r] = FALSE] /\ UNCHANGED answer
     ELSE /\ at' = [at EXCEPT ![r] = "undo"]
          /\ Answered(r, IF partial = Absent THEN "OSError" ELSE "RuntimeError")
          /\ UNCHANGED touched
  /\ UNCHANGED <<setting, files, written>>

\* os.replace.
Install(r) ==
  /\ at[r] = "install" /\ partial # Absent /\ ~Held(r) /\ ~InUse
  /\ at' = [at EXCEPT ![r] = "runs"] /\ Answered(r, "path")
  /\ binary' = partial /\ partial' = Absent /\ Touch(r, FALSE)
  /\ UNCHANGED <<setting, written>>

FailInstall(r) ==
  /\ partial = Absent \/ Held(r) \/ InUse
  /\ Goto(r, "install", "idle") /\ Answered(r, "OSError")
  /\ UNCHANGED <<setting, files, written, touched>>

\* The executable ends; or the process of the thread dies, and another takes
\* its place.
Leave(r) ==
  /\ Goto(r, "runs", "idle")
  /\ UNCHANGED <<setting, files, written, answer, touched>>

Dies(r) ==
  /\ at[r] \notin {"idle", "runs"}
  /\ at' = [at EXCEPT ![r] = "idle"] /\ Answered(r, "none")
  /\ UNCHANGED <<setting, files, written, touched>>

BootNext ==
  \E r \in Resolver :
    \/ ReturnNamed(r) \/ ReturnCached(r) \/ Refuse(r) \/ StartFetch(r)
    \/ OpenPartial(r) \/ WriteBlock(r) \/ CompleteFetch(r) \/ BreakFetch(r) \/ Undo(r)
    \/ SkipVerify(r) \/ Verify(r) \/ Install(r) \/ FailInstall(r)
    \/ Leave(r) \/ Dies(r)

BootSpec == BootInit /\ [][BootNext]_bootVars

(***************************************************************************)
(* Properties                                                              *)
(***************************************************************************)

BootTypeOK ==
  /\ setting \in [Resolver -> Settings]
  /\ binary \in (SUBSET Whole) \union {Absent}
  /\ partial \in (SUBSET Whole) \union {Absent}
  /\ at \in [Resolver -> Stops]
  /\ written \in [Resolver -> 0 .. Blocks]
  /\ answer \in [Resolver -> Answers]
  /\ touched \in [Resolver -> BOOLEAN]

\* Only another thread at the temporary file can spoil a download
\* (_fetch_sidecar): the executable is replaced by a whole one unless another
\* truncated the file after the installer opened it or found it whole, whatever
\* broke before and whatever was left behind by the dead; and an error other
\* than the RuntimeError that the callers expect comes from such a thread, or
\* from one that runs the executable.
SpoiltByOthersOnly ==
  [][\A r \in Resolver :
       /\ binary' # binary /\ at'[r] # at[r] => binary' = Whole \/ touched[r]
       /\ answer'[r] = "OSError" /\ answer[r] # "OSError" =>
            touched[r] \/ Held(r) \/ InUse]_bootVars
=============================================================================
