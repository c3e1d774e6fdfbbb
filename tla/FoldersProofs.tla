--------------------------- MODULE FoldersProofs ---------------------------
(***************************************************************************)
(* Theorems about Folders, for any folders and names.                      *)
(***************************************************************************)
EXTENDS Folders, TLAPS

\* Top-level folders have different names.
NoTwins == \A f, g \in top : title[f] = title[g] => f = g

\* Whoever bears a name now is among those that have borne it.
BorneComplete == \A n \in Name : Bearers(n) \subseteq borne[n]

\* A folder that create_folder returned is where it was made.
MadeStays == \A n \in Name : made[n] # None => made[n] \in Bearers(n)

\* What the reference of the call in progress may have been resolved to.
Course ==
    /\ pc # "idle" /\ ref = None => op = "create"
    /\ pc = "lookup" => ref \in Reference \ Standard
    /\ pc = "request" =>
          /\ ref = None => target = Root
          /\ ref \in Standard \cup Folder => target = ref
          /\ ref \in Name \ Standard => target = ref \/ target \in borne[ref]

Sound ==
    TypeOK /\ NoTwins /\ BorneComplete /\ CacheOnceRight /\ MadeStays /\ NewIsFound /\ Course

-----------------------------------------------------------------------------

\* A client starts sound, with one folder or with any other.
LEMMA InitSound == Init => Sound
<1> SUFFICES ASSUME Init PROVE Sound
  OBVIOUS
<1> USE FoldersAssumption
<1>1. PICK f \in Folder, n \in Name :
         /\ title = [g \in Folder |-> IF g = f THEN n ELSE None]
         /\ top = {f} /\ used = {f}
  BY DEF Init
<1>2. TypeOK
  BY <1>1 DEF Init, TypeOK, NoCache, Bearers, Reference, Target
<1>3. NoTwins /\ BorneComplete /\ CacheOnceRight /\ MadeStays /\ NewIsFound
  BY <1>1 DEF Init, NoCache, NoTwins, BorneComplete, CacheOnceRight, MadeStays, NewIsFound
<1>4. Course
  BY DEF Init, Course
<1> QED BY <1>2, <1>3, <1>4 DEF Sound

\* A call that begins is resolved as resolve() does before any request.
LEMMA CallSound ==
    ASSUME Sound, NEW o \in {"list", "move", "create"},
           NEW r \in Reference \cup {None}, NEW n \in Name \cup {None},
           r = None => o = "create", Call(o, r, n)
    PROVE  Sound'
<1> USE FoldersAssumption DEF Sound, Reference
<1> DEFINE known == CASE r = None -> Root
                      [] r \in Standard -> r
                      [] r \in Name \ Standard -> cache[r]
                      [] OTHER -> None
<1>1. /\ target' = known /\ pc' = IF known = None THEN "lookup" ELSE "request"
      /\ op' = o /\ ref' = r /\ label' = n
      /\ UNCHANGED <<title, top, used, cache, borne, made>>
  BY DEF Call, graphVars
<1>2. /\ r = None => known = Root
      /\ r \in Standard => known = r
      /\ r \in Name \ Standard => known = cache[r]
      /\ r \in Folder => known = None
  OBVIOUS
<1>3. known \in Target
  BY <1>2 DEF TypeOK, Target
<1> HIDE DEF known
<1>4. TypeOK'
  BY <1>1, <1>3 DEF TypeOK
<1>5. Course'
  BY <1>1, <1>2 DEF Course, CacheOnceRight, TypeOK
<1>6. NewIsFound'
  BY <1>1, <1>2 DEF NewIsFound
<1>7. NoTwins' /\ BorneComplete' /\ CacheOnceRight' /\ MadeStays'
  BY <1>1 DEF NoTwins, BorneComplete, CacheOnceRight, MadeStays, Bearers
<1> QED BY <1>4, <1>5, <1>6, <1>7

\* A lookup remembers the one folder that bears the name, if there is one.
LEMMA LookupSound ==
    ASSUME Sound, Lookup
    PROVE  Sound'
<1> USE FoldersAssumption DEF Sound, Reference, Lookup, graphVars
<1>1. ref \in Folder \cup (Name \ Standard)
  BY DEF Course
<1>2. CASE Found(ref) = {}
  <2>1. TypeOK'
    BY <1>1, <1>2 DEF TypeOK, Target
  <2>2. Course'
    BY <1>1, <1>2 DEF Course
  <2>3. NewIsFound'
    BY <1>1, <1>2 DEF NewIsFound, MadeStays, Found
  <2>4. NoTwins' /\ BorneComplete' /\ CacheOnceRight' /\ MadeStays'
    BY <1>2 DEF NoTwins, BorneComplete, CacheOnceRight, MadeStays, Bearers
  <2> QED BY <2>1, <2>2, <2>3, <2>4
<1>3. ASSUME NEW f \in Found(ref), target' = f, cache' = [cache EXCEPT ![ref] = f]
      PROVE  Sound'
  <2>1. f \in top /\ title[f] = ref /\ f \in Folder
    BY <1>3 DEF Found, Bearers, TypeOK
  <2>2. ref \in Name \ Standard
    BY <1>1, <2>1 DEF TypeOK
  <2>3. TypeOK'
    BY <1>3, <2>1, <2>2 DEF TypeOK, Target
  <2>4. f \in borne[ref]
    BY <2>1, <2>2 DEF BorneComplete, Bearers
  <2>5. Course' /\ CacheOnceRight'
    BY <1>3, <2>1, <2>2, <2>4 DEF Course, CacheOnceRight, TypeOK
  <2>6. made[ref] # None => made[ref] = f
    BY <2>1, <2>2 DEF MadeStays, NoTwins, Bearers
  <2>7. NewIsFound'
    BY <1>3, <2>2, <2>6 DEF NewIsFound, TypeOK
  <2>8. NoTwins' /\ BorneComplete' /\ MadeStays'
    BY <1>3 DEF NoTwins, BorneComplete, MadeStays, Bearers
  <2> QED BY <2>3, <2>5, <2>7, <2>8
<1> QED BY <1>2, <1>3

\* A call that ends leaves nothing resolved.
LEMMA ReturnSound ==
    ASSUME Sound, Return, UNCHANGED <<graphVars, cache, borne, made>>
    PROVE  Sound'
<1> USE FoldersAssumption DEF Sound, Return, graphVars
<1>1. TypeOK'
  BY DEF TypeOK, Target
<1>2. Course' /\ NewIsFound'
  BY DEF Course, NewIsFound
<1>3. NoTwins' /\ BorneComplete' /\ CacheOnceRight' /\ MadeStays'
  BY DEF NoTwins, BorneComplete, CacheOnceRight, MadeStays, Bearers
<1> QED BY <1>1, <1>2, <1>3

\* A new folder has no twin, and those made before it stay what they were.
LEMMA MadeSound ==
    ASSUME Sound, NEW f \in Folder, Made(f), Return
    PROVE  /\ title' \in [Folder -> Name \cup {None}]
           /\ top' \subseteq used' /\ used' \subseteq Folder
           /\ \A g \in Folder : title'[g] # None => g \in used'
           /\ NoTwins'
           /\ \A n \in Name : made[n] # None => made[n] \in Bearers(n)'
           /\ \A n \in Name : Bearers(n)' \in SUBSET Folder
           /\ \A n \in Name : target = Root /\ label = n => f \in Bearers(n)'
<1> USE FoldersAssumption
<1>1. /\ title \in [Folder -> Name \cup {None}] /\ label \in Name \cup {None}
      /\ top \subseteq used /\ used \subseteq Folder
      /\ \A g \in Folder : title[g] # None => g \in used
  BY DEF Sound, TypeOK
<1>2. /\ title' = [title EXCEPT ![f] = label] /\ used' = used \cup {f}
      /\ top' = IF target = Root THEN top \cup {f} ELSE top
      /\ f \notin used
      /\ target = Root => \A g \in top : title[g] # label
  BY DEF Made, Free, Bearers
<1>3. title'[f] = label /\ \A g \in Folder : g # f => title'[g] = title[g]
  BY <1>1, <1>2
<1>4. title' \in [Folder -> Name \cup {None}]
  BY <1>1, <1>2
<1>5. top' \subseteq used' /\ used' \subseteq Folder
  BY <1>1, <1>2
<1>6. \A g \in Folder : title'[g] # None => g \in used'
  BY <1>1, <1>2, <1>3
<1>7. \A g \in top : g \in Folder /\ g # f /\ title'[g] = title[g]
  BY <1>1, <1>2, <1>3
<1>8. NoTwins'
  BY <1>2, <1>3, <1>7 DEF NoTwins, Sound
<1>9. \A n \in Name : made[n] # None => made[n] \in Bearers(n)'
  BY <1>2, <1>7 DEF Sound, MadeStays, Bearers
<1>10. \A n \in Name : Bearers(n)' \in SUBSET Folder
  BY <1>5 DEF Bearers
<1>11. \A n \in Name : target = Root /\ label = n => f \in Bearers(n)'
  BY <1>2, <1>3 DEF Bearers
<1> QED BY <1>4, <1>5, <1>6, <1>8, <1>9, <1>10, <1>11

\* create_folder that returns starts the cache and the borne names anew.
LEMMA CreateSound ==
    ASSUME Sound, NEW f \in Folder, Create(f)
    PROVE  Sound'
<1> USE FoldersAssumption DEF Sound
<1>1. /\ Made(f) /\ Return /\ cache' = NoCache
      /\ made' = IF target = Root THEN [made EXCEPT ![label] = f] ELSE made
      /\ borne' = [n \in Name |-> Bearers(n)']
  BY DEF Create, BorneNow, Bearers
<1>2. /\ title' \in [Folder -> Name \cup {None}]
      /\ top' \subseteq used' /\ used' \subseteq Folder
      /\ \A g \in Folder : title'[g] # None => g \in used'
      /\ NoTwins'
      /\ \A n \in Name : made[n] # None => made[n] \in Bearers(n)'
      /\ \A n \in Name : Bearers(n)' \in SUBSET Folder
      /\ \A n \in Name : target = Root /\ label = n => f \in Bearers(n)'
  BY <1>1, MadeSound
<1>3. made' \in [Name -> Folder \cup {None}]
  BY <1>1 DEF TypeOK
<1>4. TypeOK'
  BY <1>1, <1>2, <1>3 DEF TypeOK, Return, NoCache, Target
<1>5. BorneComplete' /\ CacheOnceRight'
  BY <1>1 DEF BorneComplete, CacheOnceRight, NoCache
<1>6. MadeStays'
  <2>1. \A n \in Name : made'[n] = made[n] \/ (made'[n] = f /\ n = label /\ target = Root)
    BY <1>1 DEF TypeOK
  <2> QED BY <1>2, <2>1 DEF MadeStays
<1>7. Course' /\ NewIsFound'
  BY <1>1 DEF Course, NewIsFound, Return, NoCache
<1> QED BY <1>2, <1>4, <1>5, <1>6, <1>7

\* One that raises after the folder was made leaves everything else as it was.
LEMMA CreateUnansweredSound ==
    ASSUME Sound, NEW f \in Folder, CreateUnanswered(f)
    PROVE  Sound'
<1> USE FoldersAssumption DEF Sound
<1>1. Made(f) /\ Return /\ UNCHANGED <<cache, made>>
      /\ borne' = [n \in Name |-> borne[n] \cup Bearers(n)']
  BY DEF CreateUnanswered, StillBorne, Bearers
<1>2. /\ title' \in [Folder -> Name \cup {None}]
      /\ top' \subseteq used' /\ used' \subseteq Folder
      /\ \A g \in Folder : title'[g] # None => g \in used'
      /\ NoTwins'
      /\ \A n \in Name : made[n] # None => made[n] \in Bearers(n)'
      /\ \A n \in Name : Bearers(n)' \in SUBSET Folder
  BY <1>1, MadeSound
<1>3. TypeOK'
  BY <1>1, <1>2 DEF TypeOK, Return, Target
<1>4. BorneComplete' /\ CacheOnceRight' /\ MadeStays'
  BY <1>1, <1>2 DEF BorneComplete, CacheOnceRight, MadeStays
<1>5. Course' /\ NewIsFound'
  BY <1>1 DEF Course, NewIsFound, Return
<1> QED BY <1>2, <1>3, <1>4, <1>5

\* A new client knows nothing.
LEMMA RestartSound ==
    ASSUME Sound, Restart
    PROVE  Sound'
<1> USE FoldersAssumption DEF Sound, Restart, NoCache, graphVars
<1>1. borne' = [n \in Name |-> Bearers(n)'] /\ \A n \in Name : Bearers(n)' = Bearers(n)
  BY DEF BorneNow, Bearers
<1>2. TypeOK'
  BY <1>1 DEF TypeOK, Target, Bearers
<1>3. NoTwins' /\ BorneComplete' /\ CacheOnceRight' /\ MadeStays' /\ NewIsFound' /\ Course'
  BY <1>1 DEF NoTwins, BorneComplete, CacheOnceRight, MadeStays, NewIsFound, Course
<1> QED BY <1>2, <1>3

\* What others do to f is sound for the client if no two names become one.
LEMMA OthersSound ==
    ASSUME Sound, NEW f \in Folder, Others(f),
           title' \in [Folder -> Name \cup {None}],
           top' \subseteq used', used' \subseteq Folder,
           \A g \in Folder : title'[g] # None => g \in used',
           NoTwins',
           \A g \in Folder \ {f} : title'[g] = title[g] /\ (g \in top' <=> g \in top)
    PROVE  Sound'
<1> USE FoldersAssumption DEF Sound, Others, callVars
<1>1. borne' = [n \in Name |-> borne[n] \cup Bearers(n)']
  BY DEF StillBorne, Bearers
<1>2. \A n \in Name : Bearers(n)' \in SUBSET Folder
  BY DEF Bearers
<1>3. TypeOK'
  <2>1. made' \in [Name -> Folder \cup {None}]
    BY DEF TypeOK
  <2>2. borne' \in [Name -> SUBSET Folder]
    BY <1>1, <1>2 DEF TypeOK
  <2> QED BY <2>1, <2>2 DEF TypeOK, Target, Reference
<1>4. BorneComplete' /\ CacheOnceRight'
  BY <1>1 DEF BorneComplete, CacheOnceRight
<1>5. MadeStays'
  BY DEF MadeStays, Bearers, TypeOK
<1>6. NewIsFound'
  BY DEF NewIsFound, TypeOK
<1>7. Course'
  BY <1>1 DEF Course, TypeOK
<1> QED BY <1>3, <1>4, <1>5, <1>6, <1>7

\* Every step keeps the invariant.
LEMMA StepSound == Sound /\ [Next]_vars => Sound'
<1> SUFFICES ASSUME Sound, [Next]_vars PROVE Sound'
  OBVIOUS
<1> USE FoldersAssumption
<1>1. ASSUME NEW r \in Reference, NEW o \in {"list", "move"}, Call(o, r, None)
      PROVE  Sound'
  BY <1>1, CallSound DEF Reference
<1>2. ASSUME NEW r \in Reference \cup {None}, NEW n \in Name, Call("create", r, n)
      PROVE  Sound'
  BY <1>2, CallSound
<1>3. CASE Lookup
  BY <1>3, LookupSound
<1>4. CASE Reach \/ NotThere \/ Fails
  BY <1>4, ReturnSound DEF Reach, NotThere, Fails
<1>5. ASSUME NEW f \in Folder, Create(f) \/ CreateUnanswered(f)
      PROVE  Sound'
  BY <1>5, CreateSound, CreateUnansweredSound
<1>6. CASE Restart
  BY <1>6, RestartSound
<1>7. ASSUME NEW f \in Folder, NEW n \in Name, OthersMake(f, n)
      PROVE  Sound'
  BY <1>7, OthersSound DEF OthersMake, Sound, TypeOK, NoTwins, Free, Bearers
<1>8. ASSUME NEW f \in Folder, NEW n \in Name, Rename(f, n)
      PROVE  Sound'
  BY <1>8, OthersSound DEF Rename, Sound, TypeOK, NoTwins, Free, Bearers
<1>9. ASSUME NEW f \in Folder, Shift(f)
      PROVE  Sound'
  BY <1>9, OthersSound DEF Shift, Sound, TypeOK, NoTwins, Free, Bearers
<1>10. ASSUME NEW f \in Folder, Remove(f)
       PROVE  Sound'
  BY <1>10, OthersSound DEF Remove, Sound, TypeOK, NoTwins, Free, Bearers
<1>11. CASE UNCHANGED vars
  BY <1>11 DEF vars, graphVars, callVars, Sound, TypeOK, NoTwins, BorneComplete,
               CacheOnceRight, MadeStays, NewIsFound, Course, Bearers
<1> QED BY <1>1, <1>2, <1>3, <1>4, <1>5, <1>6, <1>7, <1>8, <1>9, <1>10, <1>11
        DEF Next, Client, Environment

-----------------------------------------------------------------------------

\* The inductive invariant holds in every reachable state.
THEOREM AlwaysSound == Spec => []Sound
BY InitSound, StepSound, PTL DEF Spec

\* Every variable keeps its type (FolderResolver and its callers).
THEOREM TypeCorrect == Spec => []TypeOK
<1>1. Sound => TypeOK
  BY DEF Sound
<1> QED BY <1>1, AlwaysSound, PTL

\* What FolderResolver remembers was right at some time since the last
\* create_folder that returned.
THEOREM RememberedWasRight == Spec => []CacheOnceRight
<1>1. Sound => CacheOnceRight
  BY DEF Sound
<1> QED BY <1>1, AlwaysSound, PTL

\* A top-level folder that create_folder returned is what its name leads to.
THEOREM NewFolderResolves == Spec => []NewIsFound
<1>1. Sound => NewIsFound
  BY DEF Sound
<1> QED BY <1>1, AlwaysSound, PTL

\* No call is served by a folder that never had the name it was given.
THEOREM CallsServedByName == Spec => ServedByName
<1>1. Sound /\ [Next]_vars =>
        [Reach => \/ target = ref
                  \/ ref \in Name \ Standard /\ target \in borne[ref]]_vars
  <2> SUFFICES ASSUME Sound, Reach
               PROVE  \/ target = ref
                      \/ ref \in Name \ Standard /\ target \in borne[ref]
    OBVIOUS
  <2>1. pc = "request" /\ ref \in Reference
    BY DEF Reach, Sound, Course, TypeOK
  <2> QED BY <2>1, FoldersAssumption DEF Sound, Course, Reference
<1> QED BY <1>1, AlwaysSound, PTL DEF Spec, ServedByName

=============================================================================
