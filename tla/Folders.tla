------------------------------ MODULE Folders ------------------------------
(***************************************************************************)
(* FolderResolver (outlook_helper/folders.py) and the calls of             *)
(* OutlookClient that address a folder: list_messages and search_email     *)
(* ("list"), move_email ("move") and create_folder ("create").  A display  *)
(* name is looked up once and its id remembered for the life of the        *)
(* client; everybody else renames, moves, makes and deletes folders.       *)
(***************************************************************************)
EXTENDS FiniteSets

CONSTANTS
    Folder,    \* the ids of all folders that can ever exist, well-known ones apart
    Name,      \* display names
    Standard,  \* those that WELL_KNOWN_FOLDERS has
    Root,      \* the place of top-level folders
    None       \* no value (Python's None)

ASSUME FoldersAssumption ==
    /\ Standard \subseteq Name
    /\ Folder \cap Name = {}
    /\ {Root, None} \cap (Folder \cup Name) = {}
    /\ Root # None

VARIABLES
    title,   \* [Folder -> Name or None]: displayName; None = there is no such folder
    top,     \* Graph: the top-level folders, which alone GET /mailFolders lists
    used,    \* Graph: ids given out so far
    cache,   \* [Name -> Folder or None]: FolderResolver._cache
    pc,      \* what the client waits for
    op,      \* the call in progress
    ref,     \* the folder reference it was given
    label,   \* the name create_folder was given
    target,  \* what the reference was resolved to
    borne,   \* observer: who has borne each name since the cache was last empty
    made     \* observer: [Name -> Folder or None]: the last folder create_folder
             \* returned for a name, while everybody leaves it where it is

graphVars == <<title, top, used>>
callVars == <<pc, op, ref, label, target>>
vars == <<graphVars, cache, callVars, borne, made>>

Reference == Name \cup Folder
Target == Reference \cup {Root, None}

TypeOK ==
    /\ title \in [Folder -> Name \cup {None}]
    /\ top \subseteq used /\ used \subseteq Folder
    /\ \A f \in Folder : title[f] # None => f \in used
    /\ cache \in [Name -> Folder \cup {None}]
    /\ pc \in {"idle", "lookup", "request"}
    /\ op \in {"list", "move", "create"}
    /\ ref \in Reference \cup {None}
    /\ label \in Name \cup {None}
    /\ target \in Target
    /\ borne \in [Name -> SUBSET Folder]
    /\ made \in [Name -> Folder \cup {None}]

\* The answer to the $filter of the lookup.
Bearers(n) == {f \in top : title[f] = n}

\* The path of the request leads somewhere.
Served(t) == t \in Standard \/ t = Root \/ (t \in Folder /\ title[t] # None)

\* Names of top-level folders are unique: siblings have different names.
Free(n) == Bearers(n) = {}

\* Nothing remembered: FolderResolver is new, or has been invalidated.
NoCache == [n \in Name |-> None]

Init ==
    /\ \E f \in Folder, n \in Name :
          /\ title = [g \in Folder |-> IF g = f THEN n ELSE None]
          /\ top = {f} /\ used = {f}
    /\ cache = NoCache
    /\ pc = "idle" /\ op = "list"
    /\ ref = None /\ label = None /\ target = None
    /\ borne = [n \in Name |-> Bearers(n)]
    /\ made = NoCache

\* Observers: after a step that keeps the cache, after one that empties it.
StillBorne == borne' = [n \in Name |-> borne[n] \cup {f \in top' : title'[f] = n}]
BorneNow == borne' = [n \in Name |-> {f \in top' : title'[f] = n}]

-----------------------------------------------------------------------------
(* FolderResolver.resolve.                                                 *)

\* Mutant: the $filter is lost, the first folder of the listing is taken.
FoundUnfiltered(n) == top

Found(n) == Bearers(n)

\* A call begins.  No request is made for a well-known name, a cached one, or a
\* folder created at the top.
Call(o, r, n) ==
    /\ pc = "idle"
    /\ op' = o /\ ref' = r /\ label' = n
    /\ LET known == CASE r = None -> Root
                      [] r \in Standard -> r
                      [] r \in Name \ Standard -> cache[r]
                      [] OTHER -> None
       IN /\ target' = known
          /\ pc' = IF known = None THEN "lookup" ELSE "request"
    /\ UNCHANGED <<graphVars, cache, borne, made>>

\* Mutant: a reference that no folder bears is remembered as well.
LookupRemembersMiss ==
    /\ pc = "lookup"
    /\ \E f \in (IF Found(ref) = {} THEN {ref} ELSE Found(ref)) :
          /\ target' = f
          /\ cache' = [cache EXCEPT ![ref] = f]
    /\ pc' = "request"
    /\ UNCHANGED <<graphVars, op, ref, label, borne, made>>

Lookup ==
    /\ pc = "lookup"
    /\ \/ \E f \in Found(ref) :
             /\ target' = f
             /\ cache' = [cache EXCEPT ![ref] = f]
       \/ /\ Found(ref) = {}
          /\ target' = ref   \* taken for a raw id, and not remembered
          /\ UNCHANGED cache
    /\ pc' = "request"
    /\ UNCHANGED <<graphVars, op, ref, label, borne, made>>

-----------------------------------------------------------------------------
(* The request proper.                                                     *)

Return == pc' = "idle" /\ ref' = None /\ label' = None /\ target' = None /\ UNCHANGED op

\* The folder is listed, or the message is filed in it.
Reach ==
    /\ pc = "request" /\ op \in {"list", "move"}
    /\ Served(target)
    /\ Return
    /\ UNCHANGED <<graphVars, cache, borne, made>>

\* There is no folder of that id: 404, raised as a GraphError.
NotThere ==
    /\ pc = "request"
    /\ ~ Served(target)
    /\ Return
    /\ UNCHANGED <<graphVars, cache, borne, made>>

\* Any other failure of the lookup or the request: the network, a 5xx, a
\* folder of that name existing already.
Fails ==
    /\ pc \in {"lookup", "request"}
    /\ Return
    /\ UNCHANGED <<graphVars, cache, borne, made>>

\* POST of the new folder is carried out.
Made(f) ==
    /\ pc = "request" /\ op = "create"
    /\ Served(target)
    /\ f \notin used
    /\ target = Root => Free(label)
    /\ title' = [title EXCEPT ![f] = label]
    /\ used' = used \cup {f}
    /\ top' = IF target = Root THEN top \cup {f} ELSE top

\* Mutant: create_folder leaves the cache as it is.
CreateUncleared(f) ==
    /\ Made(f)
    /\ made' = IF target = Root THEN [made EXCEPT ![label] = f] ELSE made
    /\ Return
    /\ BorneNow
    /\ UNCHANGED cache

\* create_folder returns: the cache has been emptied.
Create(f) ==
    /\ Made(f)
    /\ cache' = NoCache
    /\ made' = IF target = Root THEN [made EXCEPT ![label] = f] ELSE made
    /\ Return
    /\ BorneNow

\* The folder is made, but the answer is an error or never comes: the call
\* raises before it empties the cache.
CreateUnanswered(f) ==
    /\ Made(f)
    /\ Return
    /\ StillBorne
    /\ UNCHANGED <<cache, made>>

\* The client is built anew: the process was started again.
Restart ==
    /\ pc' = "idle" /\ ref' = None /\ label' = None /\ target' = None
    /\ cache' = NoCache
    /\ made' = NoCache
    /\ UNCHANGED <<graphVars, op>>
    /\ BorneNow

-----------------------------------------------------------------------------
(* Everybody else.                                                         *)

\* What others do to f; a folder they touch is no longer as it was made.
Others(f) ==
    /\ made' = [n \in Name |-> IF made[n] = f THEN None ELSE made[n]]
    /\ StillBorne
    /\ UNCHANGED <<cache, callVars>>

OthersMake(f, n) ==
    /\ f \notin used
    /\ title' = [title EXCEPT ![f] = n]
    /\ used' = used \cup {f}
    /\ top' \in {top} \cup IF Free(n) THEN {top \cup {f}} ELSE {}
    /\ Others(f)

Rename(f, n) ==
    /\ title[f] # None
    /\ f \in top => Free(n)
    /\ title' = [title EXCEPT ![f] = n]
    /\ UNCHANGED <<top, used>>
    /\ Others(f)

\* Into another folder, or out of it to the top.
Shift(f) ==
    /\ title[f] # None
    /\ \/ f \in top /\ top' = top \ {f}
       \/ f \notin top /\ Free(title[f]) /\ top' = top \cup {f}
    /\ UNCHANGED <<title, used>>
    /\ Others(f)

Remove(f) ==
    /\ title[f] # None
    /\ title' = [title EXCEPT ![f] = None]
    /\ top' = top \ {f}
    /\ UNCHANGED used
    /\ Others(f)

Client ==
    \/ \E r \in Reference : \E o \in {"list", "move"} : Call(o, r, None)
    \/ \E r \in Reference \cup {None}, n \in Name : Call("create", r, n)
    \/ Lookup \/ Reach \/ NotThere \/ Fails
    \/ \E f \in Folder : Create(f) \/ CreateUnanswered(f)

Environment ==
    \/ Restart
    \/ \E f \in Folder :
          \/ Shift(f) \/ Remove(f)
          \/ \E n \in Name : OthersMake(f, n) \/ Rename(f, n)

Next == Client \/ Environment

Spec == Init /\ [][Next]_vars

-----------------------------------------------------------------------------
(* What is remembered may be out of date, but it was right once, and not   *)
(* before the last create_folder that returned or the start of the client. *)
CacheOnceRight ==
    \A n \in Name : cache[n] # None => cache[n] \in borne[n]

\* "The internal folder-name cache is invalidated so the new folder is
\* resolvable by name immediately" (docs/reference.md:399): while nobody else
\* touches a top-level folder that create_folder returned, every call that is
\* given its name goes to it, whatever the name led to before.
NewIsFound ==
    \A n \in Name \ Standard :
        made[n] # None =>
            /\ cache[n] \in {None, made[n]}
            /\ pc = "request" /\ ref = n => target = made[n]

\* A call that returns was served by the well-known folder, by the id it was
\* given, or by a folder that has borne the name since the cache was last
\* empty: a name that nobody has borne is never listed and never filed into.
ServedByName ==
    [][ Reach => \/ target = ref
                 \/ ref \in Name \ Standard /\ target \in borne[ref] ]_vars

-----------------------------------------------------------------------------
(* What a document says, and the code does not do: see the finding in      *)
(* PROJECT.json.                                                           *)

\* "Display names -> GET /mailFolders?$filter=displayName eq '...' (including
\* child folders)" (specs/implementation.md:156): a lookup does not miss a folder
\* that is there, be it in another one.
ChildFoldersFound ==
    [][ Lookup /\ target' = ref => \A f \in Folder : title[f] # ref ]_vars

=============================================================================
