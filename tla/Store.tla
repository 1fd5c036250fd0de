------------------------------- MODULE Store -------------------------------
(* The files of the user: one per macro, one of bindings, one of settings    *)
(* (persistence/store.py). A file is replaced in steps: a temporary file is  *)
(* made beside it, filled, and renamed over it. Each step may fail, and the  *)
(* process may be killed between any two. What a file holds is a value of    *)
(* the other modules. The machine itself does not fail: what is written is   *)
(* not lost again.                                                           *)
EXTENDS FiniteSets

CONSTANTS MacroId,   \* ids of macros, and names of their files
          None,      \* no file, no macro, no dialog
          Garbled,   \* a file that cannot be read as what it should be
          Example    \* the actions of the bundled example preset

VARIABLES disk,      \* what each file holds, None if it does not exist
          write      \* the write_json under way: the file, the data, what the temporary
                     \* file holds so far, and what its caller does next

storeVars == <<disk, write>>

File == MacroId \cup {"bindings", "settings"}

Readable(f) == disk[f] \notin {None, Garbled}

\* What load_macros returns: every macro file that can be read. Temporary
\* files end in .tmp and are not among those it looks for.
LoadMacros == {m \in MacroId : Readable(m)}

\* What load_bindings and load_settings return.
LoadOr(f, default) == IF Readable(f) THEN disk[f] ELSE default

\* The library is empty for seed_examples_if_empty: no macro file at all, not
\* even a broken one.
NothingSaved == \A m \in MacroId : disk[m] = None

Writing(f, data, temp, job) == [file |-> f, data |-> data, temp |-> temp, job |-> job]

\* Writing starts: a temporary file beside f, with nothing or a part of the data
\* in it.
BeginWrite(f, data, job) ==
    /\ write = None
    /\ write' = Writing(f, data, Garbled, job)
    /\ UNCHANGED disk

\* All of the data is in the temporary file, flushed and synced.
FillTemporary ==
    /\ write # None /\ write.temp # write.data
    /\ write' = Writing(write.file, write.data, write.data, write.job)
    /\ UNCHANGED disk

\* Seeded bug: the temporary file is renamed before it is flushed and closed.
ReplacedEarly == disk' = [disk EXCEPT ![write.file] = write.temp]

\* The temporary file, once complete, is renamed over the file.
Replaced ==
    /\ write.temp = write.data
    /\ disk' = [disk EXCEPT ![write.file] = write.temp]

\* Making the directory or the temporary file, writing, syncing or renaming fails:
\* what there is of the temporary file is removed, and the exception goes on to
\* the caller.
WriteAborted == UNCHANGED disk

\* A killed process leaves at most a temporary file as far as it was written,
\* which has a name that no load looks for.
Killed == write' = None /\ UNCHANGED disk

\* Deleting is one call of the file system; a missing file is not an error.
DeleteFile(m) ==
    /\ disk' = [disk EXCEPT ![m] = None]
    /\ UNCHANGED write
=============================================================================
