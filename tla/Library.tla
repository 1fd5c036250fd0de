------------------------------ MODULE Library ------------------------------
(* The library of the window (services/library.py): what it holds in memory, *)
(* the commands that change it, and their saves. Everything runs on the one  *)
(* thread of the interface: while a file is being written nothing else of    *)
(* the interface happens, but the process may be killed.                     *)
(*                                                                           *)
(* A command changes the memory first, then saves: write.job names what is   *)
(* left to do when the write is done. The pages reach the library through    *)
(* the operators of this module; what they do besides is in MacroPages and   *)
(* MappingPages.                                                             *)
EXTENDS Store, Sequences

CONSTANTS BindingId, DefaultSettings

VARIABLES app,        \* "off", "closed" (by its window), "starting", "on"
          object,     \* the macro objects: title and actions, None if never made
          listed,     \* ids of the macros of the library
          bindings,   \* the bindings of the library, None for an id not in use
          settings,
          failed,     \* history: files whose last save has failed
          deleted     \* history: macros the user has deleted

libVars == <<app, object, listed, bindings, settings, failed, deleted>>

\* A title is one of two, to tell an old file from a new one.
Title == {"old", "new"}
Blank == [title |-> "old", actions |-> <<>>]

RunsMacro(b) == b.kind = "run_macro"

\* What to_dict keeps of a binding: the field its kind uses.
Saved(b) == [b EXCEPT !.macro = IF RunsMacro(b) THEN @ ELSE None,
                      !.output = @ /\ b.kind = "remap"]
SavedBindings(bs) ==
    [b \in BindingId |-> IF bs[b] = None THEN None ELSE Saved(bs[b])]

NoBindings == [b \in BindingId |-> None]

LibInit ==
    /\ app = "off"
    /\ object = [m \in MacroId |-> None] /\ listed = {}
    /\ bindings = NoBindings /\ settings = DefaultSettings
    /\ failed = {} /\ deleted = {} /\ write = None

Off == app \in {"off", "closed"}
Idle == app = "on" /\ write = None

\* A new id, drawn at random among those never used: which one is all the same.
Unused == {m \in MacroId \ deleted : object[m] = None /\ disk[m] = None}
NewId == CHOOSE m \in Unused : TRUE

---------------------------------------------------------------------------
(* Starting: examples, then everything that can be read.                     *)

\* Seeding: each bundled example becomes a file with an id of its own; the
\* instances bundle one.
Seed ==
    /\ Off /\ NothingSaved /\ Unused # {}
    /\ BeginWrite(NewId, [title |-> "old", actions |-> Example], [kind |-> "seed"])
    /\ app' = "starting"
    /\ UNCHANGED <<object, listed, bindings, settings, failed, deleted>>

\* write_json goes on: the rest of the process waits for it.
FillGoesOn == FillTemporary /\ UNCHANGED libVars

\* A seed that is written, or that cannot be: starting goes on.
Seeded ==
    /\ app = "starting" /\ write # None
    /\ Replaced \/ WriteAborted
    /\ write' = None
    /\ UNCHANGED libVars

Load ==
    /\ \/ Off /\ ~NothingSaved
       \/ app = "starting"
    /\ write = None
    /\ app' = "on"
    /\ object' = [m \in MacroId |-> IF m \in LoadMacros THEN disk[m] ELSE None]
    /\ listed' = LoadMacros
    /\ bindings' = LoadOr("bindings", NoBindings)
    /\ settings' = LoadOr("settings", DefaultSettings)
    /\ failed' = {}
    /\ UNCHANGED <<storeVars, deleted>>

\* The process ends and its memory is gone.
Forget(how) ==
    /\ app' = how
    /\ object' = [m \in MacroId |-> None] /\ listed' = {}
    /\ bindings' = NoBindings /\ settings' = DefaultSettings
    /\ UNCHANGED deleted

---------------------------------------------------------------------------
(* Commands. Each ends by saving one file.                                   *)

SaveMacro(m, value, job) ==
    BeginWrite(m, value, job) /\ UNCHANGED <<app, bindings, settings, failed, deleted>>

\* create_macro, duplicate_macro, import_macro: into the list, then saved.
AddMacro(m, value, job) ==
    /\ object' = [object EXCEPT ![m] = value]
    /\ listed' = listed \cup {m}
    /\ SaveMacro(m, value, job)

\* rename_macro: an empty or unchanged name does nothing.
RenameMacro(m) ==
    /\ object' = [object EXCEPT ![m].title = IF @ = "old" THEN "new" ELSE "old"]
    /\ SaveMacro(m, object'[m], [kind |-> "rename"])
    /\ UNCHANGED listed

\* delete_macro: the file goes first, and if it cannot, nothing else happens.
\* The bindings stay.
DeleteMacro(m) ==
    /\ DeleteFile(m)
    /\ listed' = listed \ {m}
    /\ deleted' = deleted \cup {m}
    /\ UNCHANGED <<app, object, bindings, settings, failed>>

SetBindings(bs, job) ==
    /\ bindings' = bs
    /\ BeginWrite("bindings", SavedBindings(bs), job)
    /\ UNCHANGED <<app, object, listed, settings, failed, deleted>>

SetSettings(s) ==
    /\ settings' = s
    /\ BeginWrite("settings", s, [kind |-> "settings"])
    /\ UNCHANGED <<app, object, listed, bindings, failed, deleted>>

\* The save under way succeeds: observers are told and the daemon is asked to
\* reload, with no effect on the library whatever it answers.
SaveDone ==
    /\ write # None /\ Replaced
    /\ failed' = failed \ {write.file}

\* It fails: the memory keeps the change.
SaveFails ==
    /\ write # None /\ WriteAborted
    /\ failed' = failed \cup {write.file}
=============================================================================
