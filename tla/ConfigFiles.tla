------------------------------ MODULE ConfigFiles ------------------------------
(***************************************************************************)
(* The two JSON files the server shares with people and other programs:    *)
(* the user profile, which every start of a server reads and may migrate,  *)
(* and the configuration of an IDE, into which `init` writes its entry.    *)
(* Both are read, changed in memory, written to a temporary file and put   *)
(* in place by a rename; nothing locks them. An editor writes in place.    *)
(*                                                                         *)
(* A temporary file nobody renames is never read, so it is not a state.    *)
(* Settings are the number of the user's edit they come from, 0 being the  *)
(* defaults. Of the profile they are those that migration keeps: it takes  *)
(* out credentials, switches synchronisation at boot off and resets an IDE *)
(* that is stored without its source.                                      *)
(***************************************************************************)
EXTENDS Naturals

CONSTANTS
  ConfigProcs,      \* servers that start and installers
  MaxEdits,         \* bound: edits of the user
  MaxConfigFaults   \* bound: crashes, failed reads and writes, power losses

ASSUME ConfigAssumption == MaxEdits \in Nat /\ MaxConfigFaults \in Nat

ConfigFile == {"profile", "ide"}

VARIABLES
  content,    \* of each file, as a reader finds it now
  synced,     \* files whose content has reached the disk
  held,       \* what each process has read and is about to write
  editing,    \* the files an editor has emptied and not yet filled, each with whether it still is that file
  edits,      \* edits the user has finished, of each file
  harm,       \* history: what may have cost a file its settings since its last good edit
  configFaults

configVars == <<content, synced, held, editing, edits, harm, configFaults>>

Absent == [is |-> "absent", settings |-> 0, ours |-> FALSE]
Torn == [is |-> "torn", settings |-> 0, ours |-> FALSE]
\* A list or a string, which says nothing of any setting. (The profile may also be
\* a number, or no text: then the server raises and leaves it alone.)
NoObject == [is |-> "other", settings |-> 0, ours |-> FALSE]
\* ours: the profile holds nothing that migration removes or resets; the IDE file
\* has the entry.
Whole(settings, ours) == [is |-> "whole", settings |-> settings, ours |-> ours]
\* migrating: what is saved comes from a profile that could be read.
NotHeld == [file |-> "none", settings |-> 0, at |-> "idle", migrating |-> FALSE]
Holding(file, settings, migrating) ==
  [file |-> file, settings |-> settings, at |-> "read", migrating |-> migrating]
Defaults == Holding("profile", 0, FALSE)

ConfigInit ==
  /\ content \in [ConfigFile -> {Absent, Whole(0, FALSE)}]
  /\ synced = ConfigFile
  /\ held = [p \in ConfigProcs |-> NotHeld]
  /\ editing = {} /\ edits = [f \in ConfigFile |-> 0]
  /\ harm = [f \in ConfigFile |-> {}] /\ configFaults = 0

Fault == configFaults < MaxConfigFaults /\ configFaults' = configFaults + 1
Holders(f) == {p \in ConfigProcs : held[p].file = f}
Harmed(f, cause) == [harm EXCEPT ![f] = @ \cup {cause}]

-----------------------------------------------------------------------------
\* _load_or_create_config: a profile that is missing or unreadable becomes the
\* defaults, an older one is migrated, one that is no object counts as {}; all
\* are saved, a current one is not.
LoadProfile(p) ==
  LET found == content["profile"] IN
  /\ held[p] = NotHeld /\ ~(found.is = "whole" /\ found.ours)
  /\ held' = [held EXCEPT ![p] = Holding("profile", found.settings, found.is \in {"whole", "other"})]
  /\ harm' = IF found.is \in {"torn", "other"} THEN Harmed("profile", "defaults") ELSE harm
  /\ UNCHANGED <<content, synced, editing, edits, configFaults>>

\* The profile is there and cannot be opened or read: it becomes the defaults.
ReadFails(p) ==
  /\ held[p] = NotHeld /\ content["profile"].is # "absent" /\ Fault
  /\ held' = [held EXCEPT ![p] = Defaults]
  /\ harm' = Harmed("profile", "failed")
  /\ UNCHANGED <<content, synced, editing, edits>>

\* Slip, for mutation: unreadable JSON is taken for an empty configuration.
RenderEmptyIfTorn(p) ==
  /\ held[p] = NotHeld
  /\ held' = [held EXCEPT ![p] = Holding("ide", content["ide"].settings, FALSE)]
  /\ UNCHANGED <<content, synced, editing, edits, harm, configFaults>>

\* render_target: _load raises IDEConfigError for unreadable JSON and for what is
\* no object; another entry of the file is kept, an older one of ours replaced.
RenderIde(p) ==
  /\ held[p] = NotHeld /\ content["ide"].is \in {"absent", "whole"}
  /\ held' = [held EXCEPT ![p] = Holding("ide", content["ide"].settings, FALSE)]
  /\ UNCHANGED <<content, synced, editing, edits, harm, configFaults>>

\* The temporary file is complete; install_to_target has it on the disk too.
WriteTemporary(p) ==
  /\ held[p].at = "read"
  /\ held' = [held EXCEPT ![p].at = "written"]
  /\ UNCHANGED <<content, synced, editing, edits, harm, configFaults>>

\* os.replace. An editor that has the old file open now fills a file without a name.
Place(f, settings) ==
  /\ content' = [content EXCEPT ![f] = Whole(settings, TRUE)]
  /\ synced' = IF f = "ide" THEN synced \cup {f} ELSE synced \ {f}
  /\ editing' = {e \in editing : e.file # f} \cup {[e EXCEPT !.named = FALSE] : e \in {d \in editing : d.file = f}}

Replace(p) ==
  /\ held[p].at = "written"
  /\ Place(held[p].file, held[p].settings)
  /\ held' = [held EXCEPT ![p] = NotHeld]
  /\ UNCHANGED <<edits, harm, configFaults>>

\* _save_config raises: the temporary file cannot be written or put in place, or
\* it is in place and its permissions cannot be set. A profile that was being
\* migrated then becomes the defaults; otherwise the error goes to the caller.
SaveFails(p) ==
  /\ held[p].file = "profile" /\ Fault
  /\ \/ held[p].at = "written" /\ Place("profile", held[p].settings)
     \/ UNCHANGED <<content, synced, editing>>
  /\ IF held[p].migrating
       THEN held' = [held EXCEPT ![p] = Defaults] /\ harm' = Harmed("profile", "failed")
       ELSE held' = [held EXCEPT ![p] = NotHeld] /\ UNCHANGED harm
  /\ UNCHANGED edits

\* The process ends, or the installer cannot write its temporary file, removes it
\* and raises.
GiveUpWriting(p) ==
  /\ held[p] # NotHeld /\ Fault
  /\ held' = [held EXCEPT ![p] = NotHeld]
  /\ UNCHANGED <<content, synced, editing, edits, harm>>

-----------------------------------------------------------------------------
BeginEdit(f) ==
  /\ edits[f] < MaxEdits /\ ~\E e \in editing : e.file = f
  /\ content' = [content EXCEPT ![f] = Torn]
  /\ editing' = editing \cup {[file |-> f, named |-> TRUE]}
  /\ harm' = IF Holders(f) # {} THEN Harmed(f, "race") ELSE harm
  /\ UNCHANGED <<synced, held, edits, configFaults>>

EndEdit(f) ==
  \E e \in editing :
    /\ e.file = f
    /\ editing' = editing \ {e}
    /\ edits' = [edits EXCEPT ![f] = @ + 1]
    /\ \/ /\ e.named
          /\ \E filled \in {NoObject, Whole(edits[f] + 1, TRUE), Whole(edits[f] + 1, FALSE)} :
               content' = [content EXCEPT ![f] = filled]
          /\ synced' = synced \cup {f}
          /\ harm' = IF Holders(f) = {} THEN [harm EXCEPT ![f] = {}] ELSE harm
       \/ ~e.named /\ UNCHANGED <<content, synced, harm>>
    /\ UNCHANGED <<held, configFaults>>

\* The editor dies over an empty file.
AbandonEdit(f) ==
  \E e \in editing :
    /\ e.file = f /\ Fault
    /\ editing' = editing \ {e}
    /\ harm' = Harmed(f, "editor")
    /\ UNCHANGED <<content, synced, held, edits>>

\* The machine goes down; a renamed file whose data was not on the disk may be
\* found empty.
PowerLoss ==
  /\ Fault
  /\ held' = [p \in ConfigProcs |-> NotHeld] /\ editing' = {}
  /\ \E lost \in SUBSET (ConfigFile \ synced) :
       /\ content' = [f \in ConfigFile |-> IF f \in lost THEN Torn ELSE content[f]]
       /\ harm' = [f \in ConfigFile |->
            harm[f] \cup (IF f \in lost THEN {"power"} ELSE {})
                    \cup (IF \E e \in editing : e.file = f THEN {"editor"} ELSE {})]
  /\ synced' = ConfigFile
  /\ UNCHANGED edits

ConfigNext ==
  \/ \E p \in ConfigProcs :
       \/ LoadProfile(p) \/ ReadFails(p) \/ RenderIde(p)
       \/ WriteTemporary(p) \/ Replace(p) \/ SaveFails(p) \/ GiveUpWriting(p)
  \/ \E f \in ConfigFile : BeginEdit(f) \/ EndEdit(f) \/ AbandonEdit(f)
  \/ PowerLoss

ConfigSpec == ConfigInit /\ [][ConfigNext]_configVars
-----------------------------------------------------------------------------
ConfigTypeOK ==
  /\ content \in [ConfigFile -> {Absent, Torn, NoObject} \cup {Whole(n, ours) : n \in 0..MaxEdits, ours \in BOOLEAN}]
  /\ synced \subseteq ConfigFile
  /\ \A p \in ConfigProcs :
       held[p] \in {NotHeld} \cup
         [file : ConfigFile, settings : 0..MaxEdits, at : {"read", "written"}, migrating : BOOLEAN]
  /\ editing \subseteq [file : ConfigFile, named : BOOLEAN]
  /\ edits \in [ConfigFile -> 0..MaxEdits] /\ configFaults \in 0..MaxConfigFaults
  /\ harm \in [ConfigFile -> SUBSET {"race", "defaults", "failed", "editor", "power"}]

\* What a person has set, beyond what migration resets, is lost in five ways only,
\* and a crash of the server between any two of its steps is none of them: an
\* edit that overlaps a write; an editor that dies over the file; and, of the
\* profile alone, which is not flushed and not spared, a power loss after a
\* write, a server that starts while the file is unreadable or no object, and
\* one that fails to read it or to save what it has migrated. The installer
\* leaves the IDE's file alone in all of these (_load_or_create_config,
\* _save_config, install_to_target).
SettingsKept ==
  \A f \in ConfigFile :
    /\ content[f].is = "torn" =>
         (\E e \in editing : e.file = f /\ e.named) \/ harm[f] \cap {"editor", "power"} # {}
    /\ content[f].is = "whole" /\ content[f].settings # edits[f] =>
         harm[f] \cap (IF f = "ide" THEN {"race"} ELSE {"race", "defaults", "failed"}) # {}
    /\ f = "ide" => harm[f] \subseteq {"race", "editor"}
=============================================================================
