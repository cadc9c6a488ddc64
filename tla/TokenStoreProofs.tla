--------------------------- MODULE TokenStoreProofs ---------------------------
(* That no token is lost and no revocation undone, for any number of tokens, *)
(* whatever fails or crashes.                                                *)
EXTENDS TokenStore, TLAPS

-----------------------------------------------------------------------------
(* The invariant.                                                           *)

\* The tokens in a file.
OnFile(f) == IF f = Absent THEN {} ELSE DOMAIN f

Writing == {"write", "rename", "sync"}

\* What memory holds for the mutation in progress, whose write is under way.
InProgress ==
  \/ op = Down /\ DOMAIN tokens = {}
  \/ op = Free
  \/ /\ op.pc \in Writing
     /\ op.kind \in {"open", "mint"} => op.token \in DOMAIN tokens
     /\ op.kind = "revoke" => op.token \in made \ DOMAIN tokens
     /\ op.kind \in {"open", "mint", "revoke", "flush"}
     /\ op.pc = "sync" => renamed = tokens

\* Nothing is held that has not been built.
Built ==
  /\ DOMAIN tokens \subseteq made
  /\ OnFile(renamed) \subseteq made
  /\ OnFile(disk) \subseteq made

\* What was handed out is in both views of the file, and in memory.
Kept ==
  /\ granted \subseteq OnFile(disk)
  /\ granted \subseteq OnFile(renamed)
  /\ Up => granted \subseteq DOMAIN tokens
  /\ op.kind = "open" => granted = {}

\* What was revoked is in neither.
Barred ==
  /\ gone \cap OnFile(disk) = {}
  /\ gone \cap OnFile(renamed) = {}
  /\ Up => gone \cap DOMAIN tokens = {}
  /\ Up => withdrawn \cap DOMAIN tokens = {}

TokenInv == TypeOK /\ InProgress /\ Built /\ Kept /\ Barred

-----------------------------------------------------------------------------
(* Contents of a file.                                                      *)

\* A function on some of the tokens, with times for values, is a content, and
\* every content is one.
LEMMA ContentIsFunction ==
  /\ \A s \in SUBSET Token : \A f \in [s -> 0..MaxClock] : f \in Contents
  /\ \A f \in Contents :
       /\ DOMAIN f \subseteq Token
       /\ f \in [DOMAIN f -> 0..MaxClock]
       /\ f # Absent
<1>1. ASSUME NEW s \in SUBSET Token, NEW f \in [s -> 0..MaxClock]
      PROVE  f \in Contents
  BY DEF Contents
<1>2. ASSUME NEW f \in Contents
      PROVE  DOMAIN f \subseteq Token /\ f \in [DOMAIN f -> 0..MaxClock]
  <2>1. PICK s \in SUBSET Token : f \in [s -> 0..MaxClock]
    BY DEF Contents
  <2> QED
    BY <2>1
<1>3. \A f \in Contents : f # Absent
  BY AbsentAssumption
<1> QED
  BY <1>1, <1>2, <1>3

\* A content holds the tokens of its domain.
LEMMA OnFileOfContent == \A f \in Contents : OnFile(f) = DOMAIN f
  BY ContentIsFunction DEF OnFile

\* No token is in a file that does not exist, or in an empty store.
LEMMA NothingHeld ==
  /\ OnFile(Absent) = {}
  /\ Empty \in Contents
  /\ DOMAIN Empty = {}
<1>1. Empty \in [{} -> 0..MaxClock] /\ DOMAIN Empty = {}
  BY DEF Empty
<1> QED
  BY <1>1, ContentIsFunction DEF OnFile

-----------------------------------------------------------------------------
(* The invariant is inductive.                                              *)

LEMMA InitTokenInv == Init => TokenInv
<1> SUFFICES ASSUME Init PROVE TokenInv
  OBVIOUS
<1>1. TypeOK
  <2>1. used \in [Token -> 0..MaxClock] /\ seen \in [Token -> 0..MaxClock] /\ clock \in 0..MaxClock
    BY TokenStoreAssumption DEF Init
  <2>2. disk \in Contents \cup {Absent} /\ renamed \in Contents \cup {Absent} /\ tokens \in Contents
    BY NothingHeld DEF Init
  <2> QED
    BY <2>1, <2>2, NothingHeld DEF Init, TypeOK, Down
<1> QED
  BY <1>1, NothingHeld DEF Init, TokenInv, InProgress, Built, Kept, Barred

LEMMA OpenExistingKeeps == TokenInv /\ OpenExisting => TokenInv'
<1> SUFFICES ASSUME TokenInv, OpenExisting PROVE TokenInv'
  OBVIOUS
<1> USE DEF TokenInv, OpenExisting, files, Boots, Reindexed
<1>1. renamed \in Contents /\ OnFile(renamed) = DOMAIN renamed
  BY OnFileOfContent DEF TypeOK
<1>2. TypeOK'
  <2>1. used' \in [Token -> 0..MaxClock] /\ seen' \in [Token -> 0..MaxClock]
    BY TokenStoreAssumption
  <2> QED
    BY <1>1, <2>1 DEF TypeOK, Free
<1>3. InProgress' /\ Built'
  BY <1>1 DEF InProgress, Built
<1>4. Kept'
  BY <1>1 DEF Kept, Free
<1>5. Barred'
  BY <1>1 DEF Barred, Free
<1> QED
  BY <1>2, <1>3, <1>4, <1>5

LEMMA OpenFreshKeeps ==
  ASSUME TokenInv, NEW t \in Token, OpenFresh(t)
  PROVE  TokenInv'
<1> USE DEF TokenInv, OpenFresh, files, Boots, Saves
<1>1. tokens' \in Contents /\ DOMAIN tokens' = {t}
  <2>1. {t} \in SUBSET Token /\ tokens' \in [{t} -> 0..MaxClock]
    BY TokenStoreAssumption
  <2> QED
    BY <2>1, ContentIsFunction
<1>2. granted = {}
  BY NothingHeld DEF Kept
<1>3. TypeOK'
  <2>1. used' \in [Token -> 0..MaxClock] /\ seen' \in [Token -> 0..MaxClock]
    BY TokenStoreAssumption
  <2> QED
    BY <1>1, <1>2, <2>1 DEF TypeOK
<1>4. InProgress' /\ Built'
  BY <1>1 DEF InProgress, Built, Writing
<1>5. Kept' /\ Barred'
  BY <1>1, <1>2 DEF Kept, Barred
<1> QED
  BY <1>3, <1>4, <1>5

LEMMA MintKeeps ==
  ASSUME TokenInv, NEW t \in Token, Mint(t)
  PROVE  TokenInv'
<1> USE DEF TokenInv, Mint, files, Saves, Reindexed
<1>1. tokens' \in Contents /\ DOMAIN tokens' = DOMAIN tokens \cup {t}
  <2>1. /\ DOMAIN tokens \cup {t} \in SUBSET Token
        /\ tokens' \in [DOMAIN tokens \cup {t} -> 0..MaxClock]
    BY TokenStoreAssumption, ContentIsFunction DEF TypeOK
  <2> QED
    BY <2>1, ContentIsFunction
<1>2. t \notin granted \cup gone \cup withdrawn
  BY DEF TypeOK
<1>3. TypeOK'
  BY <1>1, TokenStoreAssumption DEF TypeOK
<1>4. InProgress' /\ Built'
  BY <1>1 DEF InProgress, Built, Writing
<1>5. Kept' /\ Barred'
  BY <1>1, <1>2 DEF Kept, Barred, Up, Free
<1> QED
  BY <1>3, <1>4, <1>5

LEMMA RevokeKeeps ==
  ASSUME TokenInv, NEW t \in Token, Revoke(t)
  PROVE  TokenInv'
<1> USE DEF TokenInv, Revoke, files, Saves, Reindexed
<1>1. tokens' \in Contents /\ DOMAIN tokens' = DOMAIN tokens \ {t}
  <2>1. /\ DOMAIN tokens \ {t} \in SUBSET Token
        /\ tokens' \in [DOMAIN tokens \ {t} -> 0..MaxClock]
    BY TokenStoreAssumption, ContentIsFunction DEF TypeOK
  <2> QED
    BY <2>1, ContentIsFunction
<1>2. t \in made
  BY DEF Built
<1>3. TypeOK'
  BY <1>1, <1>2, TokenStoreAssumption DEF TypeOK
<1>4. InProgress' /\ Built'
  BY <1>1, <1>2 DEF InProgress, Built, Writing
<1>5. Kept' /\ Barred'
  BY <1>1, <1>2 DEF Kept, Barred, Up, Free
<1> QED
  BY <1>3, <1>4, <1>5

LEMMA FlushKeeps == TokenInv /\ Flush => TokenInv'
<1> SUFFICES ASSUME TokenInv, Flush PROVE TokenInv'
  OBVIOUS
<1> USE DEF TokenInv, Flush, files, history, Saves
<1>1. tokens' \in Contents /\ DOMAIN tokens' = DOMAIN tokens
  <2>1. /\ DOMAIN tokens \in SUBSET Token
        /\ tokens' \in [DOMAIN tokens -> 0..MaxClock]
    BY TokenStoreAssumption, ContentIsFunction DEF TypeOK, Stamped
  <2> QED
    BY <2>1, ContentIsFunction
<1>2. TypeOK'
  BY <1>1, TokenStoreAssumption DEF TypeOK, Free
<1>3. InProgress' /\ Built'
  BY <1>1 DEF InProgress, Built, Writing
<1>4. Kept' /\ Barred'
  BY <1>1 DEF Kept, Barred, Up, Free
<1> QED
  BY <1>2, <1>3, <1>4

LEMMA WriteTempKeeps == TokenInv /\ WriteTemp => TokenInv'
<1> SUFFICES ASSUME TokenInv, WriteTemp PROVE TokenInv'
  OBVIOUS
<1> USE DEF TokenInv, WriteTemp, files, memory, history
<1>1. op'.pc = "rename" /\ op'.kind = op.kind /\ op'.token = op.token
  BY DEF TypeOK
<1>2. TypeOK'
  BY DEF TypeOK
<1>3. InProgress'
  BY <1>1 DEF InProgress, Writing, Down, Free
<1>4. Built' /\ Kept' /\ Barred'
  BY <1>1 DEF Built, Kept, Barred, Up
<1> QED
  BY <1>2, <1>3, <1>4

LEMMA RenameKeeps == TokenInv /\ Rename => TokenInv'
<1> SUFFICES ASSUME TokenInv, Rename PROVE TokenInv'
  OBVIOUS
<1> USE DEF TokenInv, Rename, memory, history
<1>1. op'.pc = "sync" /\ op'.kind = op.kind /\ op'.token = op.token
  BY DEF TypeOK
<1>2. TypeOK'
  BY DEF TypeOK
<1>3. InProgress'
  BY <1>1 DEF InProgress, Writing, Down, Free
<1>4. OnFile(renamed') = DOMAIN tokens /\ OnFile(disk') = OnFile(disk)
  BY OnFileOfContent DEF TypeOK
<1>5. Built' /\ Kept' /\ Barred'
  BY <1>1, <1>4 DEF Built, Kept, Barred, Up
<1> QED
  BY <1>2, <1>3, <1>5

\* The write ends: what memory holds is what both views of the file hold.
LEMMA SyncDirKeeps == TokenInv /\ SyncDir => TokenInv'
<1> SUFFICES ASSUME TokenInv, SyncDir PROVE TokenInv'
  OBVIOUS
<1> USE DEF TokenInv, SyncDir, Acknowledge
<1>1. /\ op.kind \in {"open", "mint"} => op.token \in DOMAIN tokens
      /\ op.kind = "revoke" => op.token \in made \ DOMAIN tokens
      /\ renamed = tokens
  BY DEF InProgress, Down, Free
<1>2. /\ OnFile(renamed') = DOMAIN tokens
      /\ OnFile(disk') = DOMAIN tokens
  BY <1>1, OnFileOfContent DEF TypeOK
<1>3. index' = DOMAIN tokens
  BY DEF TypeOK, Reindexed
<1>4. granted' \subseteq DOMAIN tokens
  BY <1>1 DEF Kept, Up
<1>5. gone' \cap DOMAIN tokens = {} /\ gone' \subseteq made
  BY <1>1 DEF Barred, Up, TypeOK
<1>6. granted' \subseteq made
  BY <1>4 DEF Built
<1>7. TypeOK'
  BY <1>3, <1>5, <1>6, TokenStoreAssumption DEF TypeOK, Free
<1>8. InProgress' /\ Built'
  BY <1>2 DEF InProgress, Built
<1>9. Kept'
  BY <1>2, <1>4 DEF Kept, Free
<1>10. Barred'
  BY <1>2, <1>5 DEF Barred, Up
<1> QED
  BY <1>7, <1>8, <1>9, <1>10

LEMMA SaveFailsKeeps == TokenInv /\ SaveFails => TokenInv'
<1> SUFFICES ASSUME TokenInv, SaveFails PROVE TokenInv'
  OBVIOUS
<1> USE DEF TokenInv, SaveFails, files
<1>1. CASE op.kind = "open"
  <2>1. TypeOK'
    BY <1>1, NothingHeld, TokenStoreAssumption DEF TypeOK, Down
  <2>2. InProgress' /\ Built'
    BY <1>1, NothingHeld DEF InProgress, Built
  <2>3. Kept' /\ Barred'
    BY <1>1 DEF Kept, Barred, Up, Down
  <2> QED
    BY <2>1, <2>2, <2>3
<1>2. CASE op.kind # "open"
  <2>1. TypeOK'
    BY <1>2, TokenStoreAssumption DEF TypeOK, Free
  <2>2. InProgress' /\ Built'
    BY <1>2 DEF InProgress, Built
  <2>3. Kept' /\ Barred'
    BY <1>2 DEF Kept, Barred, Up, Free
  <2> QED
    BY <2>1, <2>2, <2>3
<1> QED
  BY <1>1, <1>2

LEMMA LookupKeeps ==
  ASSUME TokenInv, NEW t \in Token, Lookup(t)
  PROVE  TokenInv'
<1> USE DEF TokenInv, Lookup, files
<1>1. TypeOK'
  BY DEF TypeOK
<1> QED
  BY <1>1 DEF InProgress, Built, Kept, Barred, Up

LEMMA TickKeeps == TokenInv /\ Tick => TokenInv'
<1> SUFFICES ASSUME TokenInv, Tick PROVE TokenInv'
  OBVIOUS
<1> USE DEF TokenInv, Tick, files, memory, history
<1>1. TypeOK'
  BY TokenStoreAssumption DEF TypeOK
<1> QED
  BY <1>1 DEF InProgress, Built, Kept, Barred, Up

\* Whatever a crash leaves of the file held what was handed out and nothing that
\* was revoked.
LEMMA CrashKeeps == TokenInv /\ Crash => TokenInv'
<1> SUFFICES ASSUME TokenInv, Crash PROVE TokenInv'
  OBVIOUS
<1> USE DEF TokenInv, Crash, files, history
<1>1. /\ disk' \in {disk, renamed} /\ renamed' \in {disk, renamed}
      /\ UNCHANGED <<made, granted, gone>>
  OBVIOUS
<1>2. TypeOK'
  BY NothingHeld, TokenStoreAssumption DEF TypeOK, Down
<1>3. InProgress' /\ Built'
  BY <1>1, NothingHeld DEF InProgress, Built
<1>4. Kept' /\ Barred'
  BY <1>1 DEF Kept, Barred, Up, Down
<1> QED
  BY <1>2, <1>3, <1>4

LEMMA NextTokenInv == TokenInv /\ [Next]_vars => TokenInv'
<1> SUFFICES ASSUME TokenInv, [Next]_vars PROVE TokenInv'
  OBVIOUS
<1>1. CASE UNCHANGED vars
  BY <1>1 DEF TokenInv, TypeOK, InProgress, Built, Kept, Barred, Up,
       vars, files, memory, history
<1>2. CASE Save
  BY <1>2, WriteTempKeeps, RenameKeeps, SyncDirKeeps DEF Save
<1>3. ASSUME NEW t \in Token, OpenFresh(t) \/ Mint(t) \/ Revoke(t) \/ Lookup(t)
      PROVE  TokenInv'
  BY <1>3, OpenFreshKeeps, MintKeeps, RevokeKeeps, LookupKeeps
<1> QED
  BY <1>1, <1>2, <1>3, OpenExistingKeeps, FlushKeeps, SaveFailsKeeps,
     TickKeeps, CrashKeeps DEF Next

LEMMA AlwaysTokenInv == Spec => []TokenInv
  BY InitTokenInv, NextTokenInv, PTL DEF Spec

-----------------------------------------------------------------------------
(* What it is for.                                                          *)

\* A running process verifies the very tokens its store holds, except while Open
\* still saves the first one, for any number of tokens (auth.go reindex, Mint,
\* Revoke).
THEOREM TokenTypes == Spec => []TypeOK
<1>1. TokenInv => TypeOK
  BY DEF TokenInv
<1> QED
  BY <1>1, AlwaysTokenInv, PTL

\* A token handed out is on disk and verifies until someone asks to revoke it:
\* no crash, power loss or failed write of another mutation loses it (store.go
\* mutate, atomicWrite; auth.go Mint, Open).
THEOREM GrantedAlwaysSurvives == Spec => []GrantedSurvives
<1>1. TokenInv => GrantedSurvives
  <2> SUFFICES ASSUME TokenInv, NEW t \in granted
      PROVE  /\ disk # Absent /\ t \in DOMAIN disk
             /\ renamed # Absent /\ t \in DOMAIN renamed
             /\ Up => t \in index
    BY DEF TokenInv, GrantedSurvives
  <2>1. t \in OnFile(disk) /\ t \in OnFile(renamed)
    BY DEF TokenInv, Kept
  <2>2. Up => t \in index
    BY DEF TokenInv, Kept, TypeOK
  <2> QED
    BY <2>1, <2>2 DEF OnFile
<1> QED
  BY <1>1, AlwaysTokenInv, PTL

\* A revocation answered with success is never undone, by a crash, a power loss or
\* a later write, and one that was asked for stops the token for as long as the
\* process lives (auth.go Revoke, store.go atomicWrite).
THEOREM RevokedIsForEver == Spec => []RevokedStaysRevoked
<1>1. TokenInv => RevokedStaysRevoked
  <2> SUFFICES ASSUME TokenInv PROVE RevokedStaysRevoked
    OBVIOUS
  <2>1. index \subseteq DOMAIN tokens
    BY DEF TokenInv, TypeOK
  <2>2. ~Up => DOMAIN tokens = {}
    BY DEF TokenInv, InProgress, Up, Writing, Free
  <2> QED
    BY <2>1, <2>2 DEF TokenInv, Barred, RevokedStaysRevoked, OnFile
<1> QED
  BY <1>1, AlwaysTokenInv, PTL
=============================================================================
