----------------------------- MODULE TokenStore -----------------------------
(***************************************************************************)
(* The tokens of internal/auth: in f.Tokens and on disk (store.go), in the *)
(* index that verification reads without a lock (auth.go), and across the  *)
(* crashes and failed writes in between.                                   *)
(*                                                                         *)
(* mutate holds s.mu from the change in memory to the end of the write, so *)
(* there is one mutation at a time; verifications, List and crashes come   *)
(* between its steps.  A token is its id: its secret, name and scope never *)
(* change.  PROXY_TOKEN is unset; the other credentials in the file are    *)
(* left out, they are only written by Open.                                *)
(***************************************************************************)
EXTENDS Naturals, FiniteSets

CONSTANTS
  Token,     \* the tokens that can ever be built
  MaxClock,  \* bound: seconds that pass
  Absent,    \* the file does not exist
  None       \* no token

ASSUME TokenStoreAssumption ==
  /\ None \notin Token
  /\ MaxClock \in Nat

\* What a file can hold: some tokens, each with its LastUsed.
Contents == UNION {[s -> 0..MaxClock] : s \in SUBSET Token}

ASSUME AbsentAssumption == Absent \notin Contents

VARIABLES
  disk,      \* the file a power loss is sure to leave, with each token's LastUsed
  renamed,   \* the file as this kernel shows it; the directory may not be synced
  tokens,    \* f.Tokens: the LastUsed of each token held
  index,     \* a.index: the tokens that verify
  used,      \* t.used: the last use of each token, since this boot
  op,        \* the mutation that holds s.mu
  clock,     \* the time
  made,      \* history: the tokens built so far
  granted,   \* history: tokens whose secret was handed out and that nobody has
             \* asked to revoke
  gone,      \* history: tokens whose revocation was answered with success
  withdrawn, \* history: tokens revoked since this boot, saved or not
  seen,      \* history: when each token was last verified since this boot
  failed     \* history: the last write of this boot failed

files   == <<disk, renamed>>
memory  == <<tokens, index, used>>
history == <<made, granted, gone, withdrawn, seen, failed>>
vars    == <<files, memory, op, clock, history>>

Down == [kind |-> "none", pc |-> "down", token |-> None]
Free == [kind |-> "none", pc |-> "free", token |-> None]

Up == op.pc # "down"

\* The mutation has changed f and goes on to saveLocked.
Saves(kind, t) == op' = [kind |-> kind, pc |-> "write", token |-> t]

Empty == [t \in {} |-> 0]

-----------------------------------------------------------------------------

Init ==
  /\ disk = Absent /\ renamed = Absent
  /\ tokens = Empty /\ index = {}
  /\ used = [t \in Token |-> 0]
  /\ op = Down
  /\ clock = 0
  /\ made = {} /\ granted = {} /\ gone = {} /\ withdrawn = {}
  /\ seen = [t \in Token |-> 0] /\ failed = FALSE

(* Open. *)

\* A process starts.
Boots ==
  /\ used' = [t \in Token |-> 0]
  /\ withdrawn' = {}
  /\ seen' = [t \in Token |-> 0]
  /\ failed' = FALSE

\* reindex: what is in the store is in the index.
Reindexed(ts) == DOMAIN ts

\* The file is there: it is loaded and indexed, and nothing is written.
OpenExisting ==
  /\ op = Down
  /\ renamed # Absent
  /\ tokens' = renamed
  /\ index' = Reindexed(renamed)
  /\ Boots
  /\ op' = Free
  /\ UNCHANGED <<files, clock, made, granted, gone>>

\* First boot: a token is built and saved before the boot goes on.  One that an
\* earlier attempt built and lost has left no trace.
OpenFresh(t) ==
  /\ op = Down
  /\ renamed = Absent
  /\ t \notin granted \cup gone
  /\ tokens' = [x \in {t} |-> 0]
  /\ index' = {}
  /\ Boots
  /\ made' = made \cup {t}
  /\ Saves("open", t)
  /\ UNCHANGED <<files, clock, granted, gone>>

(* The mutations: fn, in memory. *)

Mint(t) ==
  /\ op = Free
  /\ t \notin made
  /\ tokens' = [x \in DOMAIN tokens \cup {t} |-> IF x = t THEN 0 ELSE tokens[x]]
  /\ index' = Reindexed(tokens')
  /\ made' = made \cup {t}
  /\ Saves("mint", t)
  /\ UNCHANGED <<files, used, clock, granted, gone, withdrawn, seen, failed>>

\* Mutant: the index is rebuilt from copies of the tokens.
RevokeCopying(t) ==
  /\ op = Free
  /\ t \in DOMAIN tokens
  /\ tokens' = [x \in DOMAIN tokens \ {t} |-> tokens[x]]
  /\ index' = Reindexed(tokens')
  /\ used' = [x \in Token |-> 0]
  /\ granted' = granted \ {t}
  /\ withdrawn' = withdrawn \cup {t}
  /\ Saves("revoke", t)
  /\ UNCHANGED <<files, clock, made, gone, seen, failed>>

\* The index is swapped before the file is written; the tokens that stay keep
\* their pending stamps.
Revoke(t) ==
  /\ op = Free
  /\ t \in DOMAIN tokens
  /\ tokens' = [x \in DOMAIN tokens \ {t} |-> tokens[x]]
  /\ index' = Reindexed(tokens')
  /\ granted' = granted \ {t}
  /\ withdrawn' = withdrawn \cup {t}
  /\ Saves("revoke", t)
  /\ UNCHANGED <<files, used, clock, made, gone, seen, failed>>

\* The tokens used since their LastUsed.
Stamped == {t \in DOMAIN tokens : used[t] > tokens[t]}

\* Flush writes only when something moved.
Flush ==
  /\ op = Free
  /\ Stamped # {}
  /\ tokens' = [t \in DOMAIN tokens |-> IF t \in Stamped THEN used[t] ELSE tokens[t]]
  /\ Saves("flush", None)
  /\ UNCHANGED <<files, index, used, clock, history>>

(* saveLocked and atomicWrite. *)

\* The temporary file is complete and synced.
WriteTemp ==
  /\ op.pc = "write"
  /\ op' = [op EXCEPT !.pc = "rename"]
  /\ UNCHANGED <<files, memory, clock, history>>

\* The caller is told that the mutation is done; Open goes on to index.
Acknowledge ==
  /\ op' = Free
  /\ granted' = IF op.kind \in {"mint", "open"} THEN granted \cup {op.token} ELSE granted
  /\ gone' = IF op.kind = "revoke" THEN gone \cup {op.token} ELSE gone
  /\ index' = IF op.kind = "open" THEN Reindexed(tokens) ELSE index
  /\ failed' = FALSE

\* Mutant: the caller is told while the rename can still be lost.
RenameUnsynced ==
  /\ op.pc = "rename"
  /\ renamed' = tokens
  /\ Acknowledge
  /\ UNCHANGED <<disk, tokens, used, clock, made, withdrawn, seen>>

\* The temporary file takes the place of the file.
Rename ==
  /\ op.pc = "rename"
  /\ op' = [op EXCEPT !.pc = "sync"]
  /\ renamed' = tokens
  /\ UNCHANGED <<disk, memory, clock, history>>

\* The directory is synced.
SyncDir ==
  /\ op.pc = "sync"
  /\ disk' = renamed
  /\ Acknowledge
  /\ UNCHANGED <<renamed, tokens, used, clock, made, withdrawn, seen>>

\* Any step of the write fails: the caller is told so, what is in memory stays,
\* and nothing writes it again.  In Open it ends the process.
SaveFails ==
  /\ op.pc \in {"write", "rename", "sync"}
  /\ IF op.kind = "open" THEN op' = Down /\ tokens' = Empty
                         ELSE op' = Free /\ UNCHANGED tokens
  /\ failed' = TRUE
  /\ UNCHANGED <<files, index, used, clock, made, granted, gone, withdrawn, seen>>

(* Everything else. *)

\* lookup finds the token in the index and stamps it.
Lookup(t) ==
  /\ t \in index
  /\ used' = [used EXCEPT ![t] = clock]
  /\ seen' = [seen EXCEPT ![t] = clock]
  /\ UNCHANGED <<files, tokens, index, op, clock, made, granted, gone, withdrawn, failed>>

Tick ==
  /\ clock < MaxClock
  /\ clock' = clock + 1
  /\ UNCHANGED <<files, memory, op, history>>

\* The process goes, or the machine does: then what was not synced may be lost.
Crash ==
  /\ Up
  /\ op' = Down
  /\ tokens' = Empty
  /\ index' = {}
  /\ \/ UNCHANGED files
     \/ renamed' \in {renamed, disk} /\ disk' = renamed'
  /\ UNCHANGED <<used, clock, history>>

-----------------------------------------------------------------------------

Save == WriteTemp \/ Rename \/ SyncDir

Next ==
  \/ OpenExisting
  \/ \E t \in Token : OpenFresh(t) \/ Mint(t) \/ Revoke(t) \/ Lookup(t)
  \/ Flush
  \/ Save
  \/ SaveFails
  \/ Tick
  \/ Crash

\* A write goes on to its end, and Run's ticker flushes.
Fairness == WF_vars(Save) /\ SF_vars(Flush)

Spec == Init /\ [][Next]_vars

FairSpec == Spec /\ Fairness

-----------------------------------------------------------------------------
(* Properties.                                                             *)

\* Types; a running process verifies the very tokens its store holds, except
\* while Open is still saving the first one (auth.go reindex, Mint, Revoke).
TypeOK ==
  /\ disk \in Contents \cup {Absent} /\ renamed \in Contents \cup {Absent}
  /\ tokens \in Contents
  /\ op \in [kind : {"none", "open", "mint", "revoke", "flush"},
             pc : {"down", "free", "write", "rename", "sync"},
             token : Token \cup {None}]
  /\ index = IF op.kind = "open" THEN {} ELSE DOMAIN tokens
  /\ used \in [Token -> 0..MaxClock]
  /\ seen \in [Token -> 0..MaxClock] /\ failed \in BOOLEAN
  /\ clock \in 0..MaxClock
  /\ made \subseteq Token /\ granted \subseteq made
  /\ gone \subseteq made /\ withdrawn \subseteq made

\* A token handed out verifies, whenever the process is up, until someone asks to
\* revoke it: no crash, power loss or failed write of another mutation loses it
\* (store.go mutate, atomicWrite; auth.go Mint, Open).
GrantedSurvives ==
  /\ TypeOK
  /\ \A t \in granted :
       /\ disk # Absent /\ t \in DOMAIN disk
       /\ renamed # Absent /\ t \in DOMAIN renamed
       /\ Up => t \in index

\* A revocation answered with success holds for ever, whatever crashes and
\* whatever is written after it.  Whether or not the store can be written, the token
\* stops working at once, until the end of the process (auth.go Revoke, store.go
\* atomicWrite).
RevokedStaysRevoked ==
  /\ \A t \in gone :
       /\ t \notin index
       /\ disk # Absent => t \notin DOMAIN disk
       /\ renamed # Absent => t \notin DOMAIN renamed
  /\ Up => withdrawn \cap index = {}

\* The last use of a token reaches the file, unless the last write failed or the
\* process ends first: a stamp survives the revocation of another token, and a
\* verification that does not wait for a flush (auth.go Flush, lookup, reindex).
StampsAreSaved ==
  \A t \in Token :
    <>[](t \in index /\ ~failed) =>
      []<>(renamed # Absent /\ t \in DOMAIN renamed /\ renamed[t] >= seen[t])
=============================================================================
