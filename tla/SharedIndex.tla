----------------------------- MODULE SharedIndex -----------------------------
(***************************************************************************)
(* The index of a checkpoint directory, which every server process there   *)
(* reads when it starts and writes before each checkpoint: through ONE     *)
(* temporary name, by the tools and the watcher of each process and by the *)
(* handler of a signal, with no lock between them.                         *)
(*                                                                         *)
(* Abstracted: what an index holds.  A file is told apart by whether it    *)
(* can be read.                                                            *)
(***************************************************************************)
EXTENDS Naturals

CONSTANT Writers     \* calls that may write the index at the same time

VARIABLES
    at,       \* where each writer is
    tmp,      \* the file index.json.gz.tmp: "none", "empty", "whole", "torn"
    index,    \* the file index.json.gz, likewise
    handle    \* which of the two files each writer is writing

fileVars == <<tmp, index, handle>>

indexVars == <<at, fileVars>>

IndexInit ==
    /\ at = [w \in Writers |-> "idle"]
    /\ tmp = "none"
    /\ index = "none"
    /\ handle = [w \in Writers |-> "closed"]

\* A save opens the temporary name, which empties that file; so does a start
\* that has read the index and writes it back.
OpenIndex(w) ==
    /\ at[w] = "idle"
    /\ at' = [at EXCEPT ![w] = "opened"]
    /\ tmp' = "empty"
    /\ handle' = [handle EXCEPT ![w] = "tmp"]
    /\ UNCHANGED index

\* Two writers of one file leave the text of the one or a mixture.
Written(text) == IF text = "empty" THEN {"whole"} ELSE {"whole", "torn"}

\* The file being written may by now have been renamed, or replaced.
WriteIndex(w) ==
    /\ at[w] = "opened"
    /\ tmp' \in IF handle[w] = "tmp" THEN Written(tmp) ELSE {tmp}
    /\ index' \in IF handle[w] = "index" THEN Written(index) ELSE {index}
    /\ handle' = [handle EXCEPT ![w] = "closed"]
    /\ at' = [at EXCEPT ![w] = "filled"]

\* A write that fails is caught, and leaves the temporary file as it is; so
\* does a process that stops.
GiveUpIndex(w) ==
    /\ at[w] \in {"opened", "filled"}
    /\ at' = [at EXCEPT ![w] = "idle"]
    /\ handle' = [handle EXCEPT ![w] = "closed"]
    /\ UNCHANGED <<tmp, index>>

\* Where a file being written is once the temporary name is renamed.
Renamed(h) ==
    CASE h = "tmp" -> "index"
      [] h = "index" -> "gone"
      [] OTHER -> h

\* Renames whatever has the temporary name; that there is none is caught.
ReplaceIndex(w) ==
    /\ at[w] = "filled"
    /\ at' = [at EXCEPT ![w] = "idle"]
    /\ IF tmp = "none"
       THEN UNCHANGED fileVars
       ELSE /\ index' = tmp
            /\ tmp' = "none"
            /\ handle' = [v \in Writers |-> Renamed(handle[v])]

IndexNext ==
    \E w \in Writers :
        OpenIndex(w) \/ WriteIndex(w) \/ GiveUpIndex(w) \/ ReplaceIndex(w)

IndexSpec == IndexInit /\ [][IndexNext]_indexVars

-----------------------------------------------------------------------------
(* The index on disk can be read whenever nobody is writing it: "files     *)
(* ending in ``.json.gz`` are readable by gzip tools" (_ensure_gzip_index, *)
(* about what _write_gzip_index puts there through a temporary file).      *)
IndexIsWhole ==
    (\A w \in Writers : handle[w] = "closed") => index \in {"none", "whole"}
=============================================================================
