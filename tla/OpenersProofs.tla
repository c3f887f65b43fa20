---------------------------- MODULE OpenersProofs ----------------------------
(***************************************************************************)
(* Proofs about Openers and DirCache, for any URLs, catalogs, credentials  *)
(* and versions, and any number of opens, faults and uploads: what is      *)
(* opened is what the server had, and catalogs are passed over for a       *)
(* reason.  They are about one process; two at once break the cache, see   *)
(* README.                                                                 *)
(***************************************************************************)
EXTENDS Openers, TLAPS

\* kdo is run by one command after the other.
OneAtATime == \E p \in Procs : Procs = {p}

-----------------------------------------------------------------------------
(* The invariant.  Its parts are about the open that runs, r, the metadata  *)
(* m, the directories c and the servers s.                                  *)

\* Directory d holds all of version v.
Full(d, v) == d # NoDir /\ \A f \in FilesOf[v] : d[f] = v

\* A local archive has been written since it was version w.
Newer(n, w, s) == n \in Local /\ ModTime[s[n]] > ModTime[w]

\* A tag tells what is in a directory, unless it is one that never comes back.
Describes(n, tag, d, s) ==
    \A w \in Versions : TagOf[w] # NoTag /\ tag = TagOf[w] => Full(d, w) \/ Newer(n, w, s)

Honest(m, c, s) ==
    \A n \in Names : m[n] # Broken => Describes(n, m[n].tag, c[n][m[n].generation], s)

Working == Steps \ {"idle", "done", "error"}
Loading == {"read", "load", "open", "extract", "loaded", "create", "encode"}
Targeted == {"open", "extract", "create", "encode", "remove"}
Served == {"loaded", "create", "encode", "remove", "done"}

\* The tag that was asked for is the one of version v, or one that never comes back.
TagIsOf(n, tag, v, s) ==
    \A w \in Versions : TagOf[w] # NoTag /\ tag = TagOf[w] => w = v \/ Newer(n, w, s)

\* What the loader has written, and what it has asked the server for.
LoadSound(r, c, s) ==
    LET d == c[r.name][r.meta.generation] IN
    /\ r.step \in Working \cup {"done"} => r.name \in Names
    /\ r.step \in {"open", "extract"} => d # NoDir
    /\ r.step = "open" => r.name \in Local /\ TagIsOf(r.name, r.tag, s[r.name], s)
    /\ r.step \in Served \cup {"extract"} => r.served \in Offers[r.name] \ {Missing}
    /\ r.step = "extract" =>
          /\ \A f \in FilesOf[r.served] \ r.todo : d[f] = r.served
          /\ r.name \in Local => TagIsOf(r.name, r.tag, r.served, s)
    /\ r.step \in Served => Full(d, r.served)
    /\ r.step \in Served \ {"done"} => TagIsOf(r.name, r.tag, r.served, s)

\* How the open goes from one generation to the next.
StepSound(r, m) ==
    /\ r.step = "load" => m[r.name] = r.meta /\ r.old = r.meta.generation
    /\ r.step \in {"open", "extract", "loaded", "create"} =>
          m[r.name] # Broken /\ m[r.name].generation = r.old
    /\ r.step \in Targeted => r.meta.generation = r.old + 1
    /\ r.step = "loaded" => \/ r.meta.generation = r.old + 1
                            \/ r.meta.generation = r.old /\ r.tag = r.meta.tag
    /\ r.step = "remove" => m[r.name] = [tag |-> r.tag, generation |-> r.meta.generation]

\* Every generation took an open.
Bounded(r, m, o) ==
    /\ \A n \in Names : m[n] # Broken =>
          m[n].generation <= o /\ (r.step \in Loading => m[n].generation < o)
    /\ r.step \in Working \ {"read"} => r.old < o

\* A name that no later open gets past: its metadata is half written, and not by r just
\* now, or the credential that is sent for it is not the one that would do.
Stuck(n, r, m) ==
    /\ n \in Names
    /\ \/ m[n] = Broken /\ ~(r.step = "encode" /\ r.name = n)
       \/ Meant(n) \in Accepted[n] /\ Sent(n) \notin Accepted[n]

\* An open fails for a reason, or at such a name.
Explained(r, m) == r.step = "error" => r.failed \/ Stuck(r.name, r, m)

\* The candidates that are behind the chain
Behind(q) == 1..(IF q.at \in {"index", "archive", "opened"} THEN q.turn - 1 ELSE q.turn)

Excused(q, r, m) ==
    \A i \in Behind(q) \ q.excused : \E n \in LoadedFrom(Candidates[q.url][i]) : Stuck(n, r, m)

Requests == [at: {"idle", "next", "index", "archive", "opened", "failed"},
             url: Urls \cup {NoName}, turn: Nat, excused: SUBSET Nat, index: Versions \cup {Missing}]

\* The candidate whose turn it is
Current(q) == Candidates[q.url][q.turn]

\* The chain and its open.
ChainSound(q, r) ==
    /\ q \in Requests
    /\ q.at \in {"index", "archive"} =>
          r.name \in Names /\ 0 < q.turn /\ r.name \in LoadedFrom(Current(q))
    /\ q.at = "index" =>
          /\ Current(q).kind = "helm" /\ r.name = Current(q).name
          /\ \A v \in Offers[r.name] \ {Missing} : IndexFile \in FilesOf[v]
    /\ q.at = "archive" /\ q.index # Missing => r.name = ChartOf[q.index]
    /\ q.at = "opened" => \/ r.name = NoName
                          \/ r.step = "done" /\ (q.index # Missing => r.name = ChartOf[q.index])
    /\ q.at = "failed" => q.turn = Len(Candidates[q.url])

Domains == DOMAIN proc = Procs /\ DOMAIN request = Procs /\ DOMAIN server = Names

IInv ==
    /\ OpenersTypeOK /\ Domains
    /\ Honest(metadata, content, server)
    /\ \A p \in Procs :
          /\ LoadSound(proc[p], content, server)
          /\ StepSound(proc[p], metadata)
          /\ Bounded(proc[p], metadata, opens)
          /\ ChainSound(request[p], proc[p])
          /\ Explained(proc[p], metadata) /\ Excused(request[p], proc[p], metadata)
-----------------------------------------------------------------------------
(* Types *)

Metas == [tag: Tags, generation: Generations]
Dirs == [Files -> Versions \cup {NoFile}]
Opens == [step: Steps, name: Names \cup {NoName}, meta: Metas, tag: Tags, todo: SUBSET Files,
          old: Generations, served: Versions \cup {Missing}, failed: BOOLEAN]

\* What the type invariants say of one open and of one chain.
OpenOK(r) == r \in Opens /\ (r.step = "remove" => r.old # r.meta.generation)

ChainOK(q, r) ==
    /\ q.at \in {"idle", "next", "index", "archive", "opened", "failed"}
    /\ q.index \in Versions \cup {Missing}
    /\ \/ q = Request0
       \/ q.url \in Urls /\ q.turn \in 0..Len(Candidates[q.url]) /\ q.excused \subseteq 1..q.turn
    /\ q.at \in {"index", "archive"} => r.name # NoName
    /\ q.at \in {"idle", "next", "failed"} => r.step \in {"idle", "done", "error"}

\* Metadata, directories and servers have their types.
CacheOK(m, c, s) ==
    /\ m \in [Names -> Metas \cup {Broken}]
    /\ c \in [Names -> [Generations -> Dirs \cup {NoDir}]]
    /\ DOMAIN s = Names /\ \A n \in Names : s[n] \in Offers[n]

CountersOK(n, o, f) == n \in 0..MaxTicks /\ o \in 0..MaxOpens /\ f \in 0..MaxFaults

\* The invariant of one process.
Sound(q, r, m, c, s, o) ==
    /\ OpenOK(r) /\ ChainOK(q, r) /\ CacheOK(m, c, s)
    /\ Honest(m, c, s) /\ LoadSound(r, c, s) /\ StepSound(r, m) /\ Bounded(r, m, o)
    /\ ChainSound(q, r)
    /\ Explained(r, m) /\ Excused(q, r, m)

LEMMA OneProcess ==
    ASSUME NEW p, Procs = {p}
    PROVE  IInv <=> /\ DOMAIN proc = Procs /\ DOMAIN request = Procs
                    /\ CountersOK(second, opens, faults)
                    /\ Sound(request[p], proc[p], metadata, content, server, opens)
<1> DEFINE q == request[p]
           r == proc[p]
<1>1. TypeOK /\ DOMAIN server = Names <=>
        OpenOK(r) /\ CacheOK(metadata, content, server) /\ CountersOK(second, opens, faults)
  BY DEF TypeOK, OpenOK, CacheOK, CountersOK, Opens, Metas, Dirs
<1>2. OpenersTypeOK <=> TypeOK /\ ChainOK(q, r)
  BY DEF OpenersTypeOK, ChainOK
<1> QED
  BY <1>1, <1>2, Zenon DEF IInv, Domains, Sound

LEMMA OneProcessNext ==
    ASSUME NEW p, Procs = {p},
           DOMAIN proc' = Procs, DOMAIN request' = Procs,
           CountersOK(second', opens', faults'),
           Sound(request'[p], proc'[p], metadata', content', server', opens')
    PROVE  IInv'
<1> DEFINE q == request'[p]
           r == proc'[p]
<1>1. TypeOK' /\ DOMAIN server' = Names <=>
        OpenOK(r) /\ CacheOK(metadata', content', server') /\ CountersOK(second', opens', faults')
  BY DEF TypeOK, OpenOK, CacheOK, CountersOK, Opens, Metas, Dirs
<1>2. OpenersTypeOK' <=> TypeOK' /\ ChainOK(q, r)
  BY DEF OpenersTypeOK, ChainOK
<1> QED
  BY <1>1, <1>2, Zenon DEF IInv, Domains, Sound

-----------------------------------------------------------------------------
(* The steps of an open, about states without names for their variables *)

LEMMA TagTypes == Tags \subseteq Nat \cup {TagOf[v] : v \in Versions} \cup {NoTag}
BY BoundsAssumption DEF Tags

\* An open works only for a chain that waits for it, which does not notice its steps.
LEMMA ChainKept ==
    ASSUME NEW q, NEW r, NEW m, NEW c, NEW s, NEW o, Sound(q, r, m, c, s, o),
           r.step \in Working, NEW r2, r2.name = r.name
    PROVE  r.name \in Names /\ ChainOK(q, r2) /\ ChainSound(q, r2)
<1>1. r.name \in Names
  BY DEF Sound, LoadSound
<1>2. r.step \notin {"idle", "done", "error"}
  BY DEF Working
<1>3. q.at \in {"index", "archive"}
  BY <1>1, <1>2, ShapeAssumption DEF Sound, ChainOK, ChainSound
<1> QED
  BY <1>1, <1>3 DEF Sound, ChainOK, ChainSound

\* A step of an open that writes no metadata
LEMMA ExcusedKept ==
    ASSUME NEW q, NEW r, NEW m, Excused(q, r, m), NEW r2, r2.step # "encode"
    PROVE  Excused(q, r2, m)
<1>1. \A n : Stuck(n, r, m) => Stuck(n, r2, m)
  BY DEF Stuck
<1> QED
  BY <1>1 DEF Excused

LEMMA AccountKept ==
    ASSUME NEW q, NEW r, NEW m, NEW c, NEW s, NEW o, Sound(q, r, m, c, s, o), NEW r2,
           r2.step \notin {"encode", "error"}
    PROVE  Explained(r2, m) /\ Excused(q, r2, m)
BY ExcusedKept DEF Sound, Explained

LEMMA ReadStep ==
    ASSUME NEW q, NEW r, NEW m, NEW c, NEW s, NEW o \in Nat, Sound(q, r, m, c, s, o),
           r.step = "read", NEW r2,
           r2 = IF m[r.name] = Broken
                THEN [r EXCEPT !.step = "error"]
                ELSE [r EXCEPT !.step = "load", !.meta = m[r.name], !.old = m[r.name].generation]
    PROVE  Sound(q, r2, m, c, s, o)
<1>1. r.step \in Working /\ r.name \in Names /\ r \in Opens
  BY DEF Working, Steps, Sound, LoadSound, OpenOK
<1>2. m[r.name] \in Metas \cup {Broken} /\ Broken \notin Metas
  BY <1>1, NothingAssumption DEF Sound, CacheOK, Metas
<1>3. CASE m[r.name] = Broken
  <2>1. r2 = [r EXCEPT !.step = "error"]
    BY <1>3
  <2>2. r2 \in Opens /\ r2.step = "error" /\ r2.name = r.name
    BY <1>1, <2>1 DEF Opens, Steps
  <2>3. OpenOK(r2) /\ LoadSound(r2, c, s) /\ StepSound(r2, m)
    BY <2>2 DEF OpenOK, LoadSound, StepSound, Working, Served, Targeted
  <2>4. Bounded(r2, m, o)
    BY <2>2 DEF Sound, Bounded, Working, Loading
  <2>5. Explained(r2, m) /\ Excused(q, r2, m)
    <3>1. Stuck(r2.name, r2, m)
      BY <1>1, <1>3, <2>2 DEF Stuck
    <3>2. Excused(q, r, m) /\ r2.step # "encode"
      BY <2>2 DEF Sound
    <3> QED
      BY <3>1, <3>2, ExcusedKept DEF Explained
  <2>6. ChainOK(q, r2) /\ ChainSound(q, r2)
    BY <1>1, <2>2, ChainKept
  <2> QED
    BY <2>3, <2>4, <2>5, <2>6 DEF Sound
<1>4. CASE m[r.name] # Broken
  <2>1. r2 = [r EXCEPT !.step = "load", !.meta = m[r.name], !.old = m[r.name].generation]
    BY <1>4
  <2>2. m[r.name] \in Metas /\ m[r.name].generation \in Generations
    BY <1>2, <1>4 DEF Metas
  <2>3. /\ r2 \in Opens /\ r2.step = "load" /\ r2.name = r.name /\ r2.meta = m[r.name]
        /\ r2.old = m[r.name].generation
    BY <1>1, <2>1, <2>2 DEF Opens, Steps
  <2>4. OpenOK(r2) /\ LoadSound(r2, c, s) /\ StepSound(r2, m)
    BY <1>1, <2>3 DEF OpenOK, LoadSound, StepSound, Working, Served, Targeted
  <2>5. Bounded(r2, m, o)
    <3>1. \A n \in Names : m[n] # Broken => m[n].generation <= o /\ m[n].generation < o
      BY DEF Sound, Bounded, Loading
    <3> QED
      BY <1>1, <1>4, <2>3, <3>1 DEF Bounded
  <2>6. Explained(r2, m) /\ Excused(q, r2, m)
    BY <2>3, AccountKept
  <2>7. ChainOK(q, r2) /\ ChainSound(q, r2)
    BY <1>1, <2>3, ChainKept
  <2> QED
    BY <2>4, <2>5, <2>6, <2>7 DEF Sound
<1> QED
  BY <1>3, <1>4

\* An open that fails
LEMMA ErrorStep ==
    ASSUME NEW q, NEW r, NEW m, NEW c, NEW s, NEW o \in Nat, Sound(q, r, m, c, s, o),
           r.step \in Working, NEW b \in BOOLEAN,
           b \/ (Meant(r.name) \in Accepted[r.name] /\ Sent(r.name) \notin Accepted[r.name]),
           NEW r2, r2 = [r EXCEPT !.step = "error", !.failed = b]
    PROVE  Sound(q, r2, m, c, s, o)
<1>1. r.name \in Names /\ r \in Opens
  BY DEF Working, Steps, Sound, LoadSound, OpenOK
<1>2. r2 \in Opens /\ r2.step = "error" /\ r2.name = r.name /\ r2.failed = b
  BY <1>1 DEF Opens, Steps
<1>3. OpenOK(r2) /\ LoadSound(r2, c, s) /\ StepSound(r2, m)
  BY <1>2 DEF OpenOK, LoadSound, StepSound, Working, Served, Targeted
<1>4. Bounded(r2, m, o)
  BY <1>2 DEF Sound, Bounded, Working, Loading
<1>5. Explained(r2, m) /\ Excused(q, r2, m)
  <2>1. r2.failed \/ Stuck(r2.name, r2, m)
    BY <1>1, <1>2 DEF Stuck
  <2>2. Excused(q, r, m) /\ r2.step # "encode"
    BY <1>2 DEF Sound
  <2> QED
    BY <2>1, <2>2, ExcusedKept DEF Explained
<1>6. ChainOK(q, r2) /\ ChainSound(q, r2)
  BY <1>2, ChainKept
<1> QED
  BY <1>3, <1>4, <1>5, <1>6 DEF Sound

\* The tag of what the server has is the one in the metadata: that is in the directory.
LEMMA UnchangedStep ==
    ASSUME NEW q, NEW r, NEW m, NEW c, NEW s, NEW o \in Nat, Sound(q, r, m, c, s, o),
           r.step = "load", s[r.name] # Missing, TagOf[s[r.name]] # NoTag,
           TagOf[s[r.name]] = r.meta.tag,
           NEW r2, r2 = [r EXCEPT !.step = "loaded", !.served = s[r.name], !.tag = r.meta.tag]
    PROVE  Sound(q, r2, m, c, s, o)
<1>1. r.step \in Working /\ r.name \in Names /\ r \in Opens
  BY DEF Working, Steps, Sound, LoadSound, OpenOK
<1>2. /\ s[r.name] \in Offers[r.name] \ {Missing}
      /\ s[r.name] \in Versions
  BY <1>1, ShapeAssumption DEF Sound, CacheOK
<1>3. r.meta \in Metas /\ r.meta.tag \in Tags
  BY <1>1 DEF Opens, Metas
<1>4. /\ r2 \in Opens /\ r2.step = "loaded" /\ r2.name = r.name /\ r2.meta = r.meta
      /\ r2.served = s[r.name] /\ r2.tag = r.meta.tag /\ r2.old = r.old
  BY <1>1, <1>2, <1>3 DEF Opens, Steps
<1>5. m[r.name] = r.meta /\ r.old = r.meta.generation /\ m[r.name] # Broken
  BY <1>3, NothingAssumption DEF Sound, StepSound, Metas
<1>6. Full(c[r.name][r.meta.generation], s[r.name])
  <2>1. Describes(r.name, r.meta.tag, c[r.name][r.meta.generation], s)
    BY <1>1, <1>5 DEF Sound, Honest
  <2>2. \/ Full(c[r.name][r.meta.generation], s[r.name])
        \/ Newer(r.name, s[r.name], s)
    BY <1>2, <2>1 DEF Describes
  <2>3. ModTime[s[r.name]] \in Nat
    BY <1>2, ShapeAssumption
  <2> QED
    BY <2>2, <2>3 DEF Newer
<1>7. TagIsOf(r.name, r.meta.tag, s[r.name], s)
  BY <1>2, ShapeAssumption DEF TagIsOf
<1>8. LoadSound(r2, c, s)
  BY <1>1, <1>2, <1>4, <1>6, <1>7 DEF LoadSound, Working, Served
<1>9. OpenOK(r2) /\ StepSound(r2, m)
  BY <1>4, <1>5 DEF OpenOK, StepSound, Targeted
<1>10. Bounded(r2, m, o)
  BY <1>1, <1>4 DEF Sound, Bounded, Working, Steps, Loading
<1>11. Explained(r2, m) /\ Excused(q, r2, m)
  BY <1>4, AccountKept
<1>12. ChainOK(q, r2) /\ ChainSound(q, r2)
  BY <1>1, <1>4, ChainKept
<1> QED
  BY <1>8, <1>9, <1>10, <1>11, <1>12 DEF Sound

\* The directory of n and g is d now, and every other is what it was.
Written(c, n, g, d) == [c EXCEPT ![n][g] = d]

Elsewhere(c2, c, n, g) == \A k \in Names, h \in Generations : k # n \/ h # g => c2[k][h] = c[k][h]

LEMMA DirWritten ==
    ASSUME NEW m, NEW c, NEW s, CacheOK(m, c, s), NEW n \in Names, NEW g \in Generations,
           NEW d \in Dirs \cup {NoDir}, NEW c2, c2 = Written(c, n, g, d)
    PROVE  CacheOK(m, c2, s) /\ c2[n][g] = d /\ Elsewhere(c2, c, n, g)
<1>1. c \in [Names -> [Generations -> Dirs \cup {NoDir}]]
  BY DEF CacheOK
<1>2. c2 \in [Names -> [Generations -> Dirs \cup {NoDir}]]
  BY <1>1 DEF Written
<1>3. c2[n][g] = d /\ Elsewhere(c2, c, n, g)
  BY <1>1 DEF Written, Elsewhere
<1> QED
  BY <1>2, <1>3 DEF CacheOK

\* A directory that no metadata file names may change.
LEMMA HonestKept ==
    ASSUME NEW m, NEW c, NEW s, CacheOK(m, c, s), Honest(m, c, s),
           NEW n \in Names, NEW g, m[n] # Broken => m[n].generation # g,
           NEW c2, Elsewhere(c2, c, n, g)
    PROVE  Honest(m, c2, s)
<1> SUFFICES ASSUME NEW k \in Names, m[k] # Broken
             PROVE  Describes(k, m[k].tag, c2[k][m[k].generation], s)
  BY DEF Honest
<1>1. m[k].generation \in Generations
  BY DEF CacheOK, Metas
<1>2. c2[k][m[k].generation] = c[k][m[k].generation]
  BY <1>1 DEF Elsewhere
<1> QED
  BY <1>2 DEF Honest

LEMMA ServerOffers ==
    ASSUME NEW m, NEW c, NEW s, CacheOK(m, c, s), NEW n \in Names, s[n] # Missing
    PROVE  s[n] \in Offers[n] \ {Missing} /\ s[n] \in Versions
BY ShapeAssumption DEF CacheOK

LEMMA NextGeneration ==
    ASSUME NEW q, NEW r, NEW m, NEW c, NEW s, NEW o \in 0..MaxOpens,
           Sound(q, r, m, c, s, o), r.step \in Working \ {"read"}
    PROVE  r.old \in Nat /\ r.old + 1 \in Generations
BY BoundsAssumption DEF Sound, Bounded, OpenOK, Opens, Generations

\* There is something new: it goes to the next directory.
LEMMA TargetStep ==
    ASSUME NEW q, NEW r, NEW m, NEW c, NEW s, NEW o \in 0..MaxOpens,
           Sound(q, r, m, c, s, o), r.step = "load", s[r.name] # Missing,
           NEW r2,
           r2 = IF r.name \in Local
                THEN [r EXCEPT !.step = "open", !.meta = TargetDir(r.meta), !.tag = TagOf[s[r.name]]]
                ELSE [r EXCEPT !.step = "extract", !.meta = TargetDir(r.meta),
                         !.served = s[r.name], !.todo = FilesOf[s[r.name]]],
           NEW c2,
           c2 = [c EXCEPT ![r.name][TargetDir(r.meta).generation] =
                    IF @ = NoDir THEN Emptied ELSE @]
    PROVE  Sound(q, r2, m, c2, s, o)
<1>0. CacheOK(m, c, s) /\ Honest(m, c, s)
  BY DEF Sound
<1>1. r.step \in Working \ {"read"} /\ r.name \in Names /\ r \in Opens /\ o \in Nat
  BY BoundsAssumption DEF Working, Steps, Sound, LoadSound, OpenOK
<1>2. s[r.name] \in Offers[r.name] \ {Missing} /\ s[r.name] \in Versions
  BY <1>0, <1>1, ServerOffers
<1>3. r.meta \in Metas
  BY <1>1 DEF Opens
<1>4. m[r.name] = r.meta /\ r.old = r.meta.generation /\ m[r.name] # Broken
  BY <1>3, NothingAssumption DEF Sound, StepSound, Metas
<1>g. PICK g : g = r.old + 1
  OBVIOUS
<1>n. PICK n : n = r.name
  OBVIOUS
<1>d. PICK d : d = IF c[n][g] = NoDir THEN Emptied ELSE c[n][g]
  OBVIOUS
<1>5. g \in Generations /\ r.old \in Nat
  BY <1>1, <1>g, NextGeneration
<1>6. /\ TargetDir(r.meta) \in Metas
      /\ TargetDir(r.meta).generation = g
  BY <1>3, <1>4, <1>5, <1>g DEF TargetDir, Metas
<1>7. d \in Dirs \cup {NoDir} /\ d # NoDir
  BY <1>1, <1>5, <1>n, <1>d, NothingAssumption DEF Sound, CacheOK, Emptied, Dirs
<1>8. c2 = Written(c, n, g, d)
  <2>1. [c EXCEPT ![n][g] = d] = [c EXCEPT ![n][g] = IF @ = NoDir THEN Emptied ELSE @]
    BY <1>1, <1>5, <1>d, <1>n DEF Sound, CacheOK
  <2> QED
    BY <1>6, <1>n, <2>1 DEF Written
<1>9. CacheOK(m, c2, s) /\ c2[n][g] = d /\ Elsewhere(c2, c, n, g)
  <2>1. n \in Names
    BY <1>1, <1>n
  <2> QED
    BY <1>0, <1>5, <1>7, <1>8, <2>1, DirWritten
<1>10. Honest(m, c2, s)
  <2>1. n \in Names /\ m[n].generation # g
    BY <1>1, <1>4, <1>5, <1>g, <1>n
  <2> QED
    BY <1>0, <1>9, <2>1, HonestKept
<1>11. /\ r2 \in Opens /\ r2.name = r.name /\ r2.old = r.old /\ r2.meta = TargetDir(r.meta)
       /\ IF r.name \in Local
          THEN r2.step = "open" /\ r2.tag = TagOf[s[r.name]]
          ELSE r2.step = "extract" /\ r2.served = s[r.name] /\ r2.todo = FilesOf[s[r.name]]
  <2>1. TagOf[s[r.name]] \in Tags /\ FilesOf[s[r.name]] \in SUBSET Files
    BY <1>2, ShapeAssumption DEF Tags
  <2>2. CASE r.name \in Local
    <3>1. r2 = [r EXCEPT !.step = "open", !.meta = TargetDir(r.meta), !.tag = TagOf[s[r.name]]]
      BY <2>2
    <3> QED
      BY <1>1, <1>6, <2>1, <2>2, <3>1 DEF Opens, Steps
  <2>3. CASE r.name \notin Local
    <3>1. r2 = [r EXCEPT !.step = "extract", !.meta = TargetDir(r.meta),
                   !.served = s[r.name], !.todo = FilesOf[s[r.name]]]
      BY <2>3
    <3> QED
      BY <1>1, <1>2, <1>6, <2>1, <2>3, <3>1 DEF Opens, Steps
  <2> QED
    BY <2>2, <2>3
<1>12. c2[r2.name][r2.meta.generation] # NoDir
  BY <1>6, <1>7, <1>9, <1>11, <1>n
<1>13. LoadSound(r2, c2, s)
  <2>1. CASE r.name \in Local
    <3>1. TagIsOf(r.name, r2.tag, s[r.name], s)
      BY <1>2, <1>11, <2>1, ShapeAssumption DEF TagIsOf
    <3>2. r2.step = "open" /\ r2.name = r.name
      BY <1>11, <2>1
    <3> QED
      BY <1>1, <1>12, <2>1, <3>1, <3>2 DEF LoadSound, Served
  <2>2. CASE r.name \notin Local
    <3>1. r2.step = "extract" /\ r2.served = s[r.name] /\ r2.todo = FilesOf[r2.served]
      BY <1>11, <2>2
    <3> QED
      BY <1>1, <1>2, <1>11, <1>12, <2>2, <3>1 DEF LoadSound, Served
  <2> QED
    BY <2>1, <2>2
<1>14. r2.step \in {"open", "extract"}
  BY <1>11
<1>15. OpenOK(r2) /\ StepSound(r2, m)
  BY <1>4, <1>6, <1>11, <1>14, <1>g DEF OpenOK, StepSound, Targeted
<1>16. Bounded(r2, m, o)
  BY <1>1, <1>11, <1>14 DEF Sound, Bounded, Working, Steps, Loading
<1>17. Explained(r2, m) /\ Excused(q, r2, m)
  BY <1>14, AccountKept
<1>18. ChainOK(q, r2) /\ ChainSound(q, r2)
  BY <1>1, <1>11, ChainKept
<1> QED
  BY <1>9, <1>10, <1>13, <1>15, <1>16, <1>17, <1>18 DEF Sound

\* The local archive is opened.
LEMMA ArchiveStep ==
    ASSUME NEW q, NEW r, NEW m, NEW c, NEW s, NEW o \in 0..MaxOpens,
           Sound(q, r, m, c, s, o), r.step = "open",
           NEW r2, r2 = [r EXCEPT !.step = "extract", !.served = s[r.name],
                            !.todo = FilesOf[s[r.name]]]
    PROVE  Sound(q, r2, m, c, s, o)
<1>1. r.step \in Working \ {"read"} /\ r.name \in Names /\ r \in Opens /\ r.name \in Local
  BY DEF Working, Steps, Sound, LoadSound, OpenOK
<1>2. s[r.name] \in Offers[r.name] \ {Missing} /\ s[r.name] \in Versions
  <2>1. CacheOK(m, c, s)
    BY DEF Sound
  <2>2. s[r.name] # Missing
    BY <1>1, <2>1, ShapeAssumption DEF CacheOK
  <2> QED
    BY <1>1, <2>1, <2>2, ServerOffers
<1>3. FilesOf[s[r.name]] \in SUBSET Files
  BY <1>2, ShapeAssumption
<1>4. /\ r2 \in Opens /\ r2.step = "extract" /\ r2.name = r.name /\ r2.meta = r.meta
      /\ r2.served = s[r.name] /\ r2.tag = r.tag /\ r2.old = r.old
      /\ r2.todo = FilesOf[s[r.name]]
  BY <1>1, <1>2, <1>3 DEF Opens, Steps
<1>5. c[r.name][r.meta.generation] # NoDir /\ TagIsOf(r.name, r.tag, s[r.name], s)
  BY <1>1 DEF Sound, LoadSound
<1>6. LoadSound(r2, c, s)
  BY <1>1, <1>2, <1>4, <1>5 DEF LoadSound, Working, Served
<1>7. OpenOK(r2) /\ StepSound(r2, m)
  BY <1>1, <1>4 DEF Sound, OpenOK, StepSound, Targeted
<1>8. Bounded(r2, m, o)
  BY <1>1, <1>4 DEF Sound, Bounded, Working, Steps, Loading
<1>9. Explained(r2, m) /\ Excused(q, r2, m)
  BY <1>4, AccountKept
<1>10. ChainOK(q, r2) /\ ChainSound(q, r2)
  BY <1>1, <1>4, ChainKept
<1> QED
  BY <1>6, <1>7, <1>8, <1>9, <1>10 DEF Sound

\* A file is extracted: the directory of r becomes d.
Extracting(c, r, f) ==
    [c EXCEPT ![r.name][r.meta.generation] =
        [(IF @ = NoDir THEN Emptied ELSE @) EXCEPT ![f] = r.served]]

WithFile(d, c, r, f) ==
    d[f] = r.served /\ \A e \in Files \ {f} : d[e] = c[r.name][r.meta.generation][e]

LEMMA ExtractStep ==
    ASSUME NEW q, NEW r, NEW m, NEW c, NEW s, NEW o \in 0..MaxOpens,
           Sound(q, r, m, c, s, o), r.step = "extract", NEW f \in r.todo,
           NEW r2, r2 = [r EXCEPT !.todo = @ \ {f}], NEW d \in Dirs, WithFile(d, c, r, f),
           NEW c2, c2 = Written(c, r.name, r.meta.generation, d)
    PROVE  Sound(q, r2, m, c2, s, o)
<1>0. CacheOK(m, c, s) /\ Honest(m, c, s)
  BY DEF Sound
<1>1. /\ r.step \in Working \ {"read"} /\ r.name \in Names /\ r \in Opens
      /\ r.served \in Versions /\ f \in Files
      /\ r.served \in Offers[r.name] \ {Missing}
  <2>1. r.step \in Working \ {"read"} /\ r.name \in Names /\ r \in Opens
    BY DEF Working, Steps, Sound, LoadSound, OpenOK
  <2>2. r.served \in Offers[r.name] \ {Missing}
    BY DEF Sound, LoadSound
  <2> QED
    BY <2>1, <2>2 DEF Opens
<1>2. /\ r2 \in Opens /\ r2.step = "extract" /\ r2.name = r.name /\ r2.meta = r.meta
      /\ r2.served = r.served /\ r2.tag = r.tag /\ r2.old = r.old /\ r2.todo = r.todo \ {f}
  BY <1>1 DEF Opens
<1>n. PICK n \in Names : n = r.name
  BY <1>1
<1>g. PICK g \in Generations : g = r.meta.generation
  BY <1>1 DEF Opens, Metas
<1>5. d \in Dirs \cup {NoDir} /\ d # NoDir
  BY NothingAssumption DEF Dirs
<1>6. CacheOK(m, c2, s) /\ c2[n][g] = d /\ Elsewhere(c2, c, n, g)
  <2>1. c2 = Written(c, n, g, d)
    BY <1>n, <1>g
  <2> QED
    BY <1>0, <1>5, <2>1, DirWritten
<1>7. Honest(m, c2, s)
  <2>1. r.old \in Nat
    BY <1>1, NextGeneration
  <2>2. r.meta.generation = r.old + 1 /\ m[r.name].generation = r.old
    BY DEF Sound, StepSound, Targeted
  <2>3. m[n].generation # g
    BY <1>n, <1>g, <2>1, <2>2
  <2> QED
    BY <1>0, <1>6, <2>3, HonestKept
<1>8. LoadSound(r2, c2, s)
  <2>1. \A e \in FilesOf[r.served] \ r.todo : c[n][g][e] = r.served
    BY <1>n, <1>g DEF Sound, LoadSound
  <2>2. r.name \in Local => TagIsOf(r.name, r.tag, r.served, s)
    BY DEF Sound, LoadSound
  <2>3. FilesOf[r.served] \subseteq Files
    BY <1>1, ShapeAssumption
  <2>4. \A e \in FilesOf[r.served] \ r2.todo : d[e] = r.served
    BY <1>2, <1>n, <1>g, <2>1, <2>3 DEF WithFile
  <2>5. c2[r2.name][r2.meta.generation] = d
    BY <1>2, <1>6, <1>n, <1>g
  <2> QED
    BY <1>1, <1>2, <1>5, <2>2, <2>4, <2>5 DEF LoadSound, Working, Served
<1>9. OpenOK(r2) /\ StepSound(r2, m)
  BY <1>2 DEF Sound, OpenOK, StepSound, Targeted
<1>10. Bounded(r2, m, o)
  BY <1>2 DEF Sound, Bounded, Working, Steps, Loading
<1>11. Explained(r2, m) /\ Excused(q, r2, m)
  BY <1>2, AccountKept
<1>12. ChainOK(q, r2) /\ ChainSound(q, r2)
  BY <1>1, <1>2, ChainKept
<1> QED
  BY <1>6, <1>7, <1>8, <1>9, <1>10, <1>11, <1>12 DEF Sound

\* Everything is extracted: the directory is whole, and gets the tag of the version.
LEMMA ExtractedStep ==
    ASSUME NEW q, NEW r, NEW m, NEW c, NEW s, NEW o \in 0..MaxOpens,
           Sound(q, r, m, c, s, o), r.step = "extract", r.todo = {}, NEW n \in 0..MaxTicks,
           NEW tag, tag = IF r.name \in Local THEN r.tag
                          ELSE IF TagOf[r.served] = NoTag THEN n ELSE TagOf[r.served],
           NEW r2, r2 = [r EXCEPT !.step = "loaded", !.tag = tag]
    PROVE  Sound(q, r2, m, c, s, o)
<1>1. /\ r.step \in Working \ {"read"} /\ r.name \in Names /\ r \in Opens
      /\ r.served \in Offers[r.name] \ {Missing} /\ r.served \in Versions
  <2>1. r.step \in Working \ {"read"} /\ r.name \in Names /\ r \in Opens
    BY DEF Working, Steps, Sound, LoadSound, OpenOK
  <2>2. r.served \in Offers[r.name] \ {Missing}
    BY DEF Sound, LoadSound
  <2> QED
    BY <2>1, <2>2 DEF Opens
<1>2. tag \in Tags /\ TagIsOf(r.name, tag, r.served, s)
  <2>1. CASE r.name \in Local
    <3>1. tag = r.tag
      BY <2>1
    <3> QED
      BY <1>1, <2>1, <3>1 DEF Sound, LoadSound, Opens
  <2>2. CASE r.name \notin Local /\ TagOf[r.served] = NoTag
    <3>1. tag = n /\ tag \in Nat
      BY <2>2, BoundsAssumption
    <3> QED
      BY <3>1, ShapeAssumption DEF TagIsOf, Tags
  <2>3. CASE r.name \notin Local /\ TagOf[r.served] # NoTag
    <3>1. tag = TagOf[r.served]
      BY <2>3
    <3> QED
      BY <1>1, <3>1, ShapeAssumption DEF TagIsOf, Tags
  <2> QED
    BY <2>1, <2>2, <2>3
<1>3. /\ r2 \in Opens /\ r2.step = "loaded" /\ r2.name = r.name /\ r2.meta = r.meta
      /\ r2.served = r.served /\ r2.tag = tag /\ r2.old = r.old
  BY <1>1, <1>2 DEF Opens, Steps
<1>4. Full(c[r.name][r.meta.generation], r.served)
  BY DEF Sound, LoadSound, Full
<1>5. LoadSound(r2, c, s)
  BY <1>1, <1>2, <1>3, <1>4 DEF LoadSound, Working, Served
<1>6. OpenOK(r2) /\ StepSound(r2, m)
  BY <1>3 DEF Sound, OpenOK, StepSound, Targeted
<1>7. Bounded(r2, m, o)
  BY <1>3 DEF Sound, Bounded, Working, Steps, Loading
<1>8. Explained(r2, m) /\ Excused(q, r2, m)
  BY <1>3, AccountKept
<1>9. ChainOK(q, r2) /\ ChainSound(q, r2)
  BY <1>1, <1>3, ChainKept
<1> QED
  BY <1>5, <1>6, <1>7, <1>8, <1>9 DEF Sound

\* The tag is the old one, and the open done, or the metadata has to be written.
LEMMA CompareStep ==
    ASSUME NEW q, NEW r, NEW m, NEW c, NEW s, NEW o \in 0..MaxOpens,
           Sound(q, r, m, c, s, o), r.step = "loaded",
           NEW r2, r2 = [r EXCEPT !.step = IF r.tag = r.meta.tag THEN "done" ELSE "create"]
    PROVE  Sound(q, r2, m, c, s, o)
<1>1. r.step \in Working /\ r.name \in Names /\ r \in Opens
  BY DEF Working, Steps, Sound, LoadSound, OpenOK
<1>2. /\ r2 \in Opens /\ r2.name = r.name /\ r2.meta = r.meta
      /\ r2.served = r.served /\ r2.tag = r.tag /\ r2.old = r.old
      /\ r2.step = "done" \/ (r2.step = "create" /\ r.tag # r.meta.tag)
  BY <1>1 DEF Opens, Steps
<1>3. LoadSound(r2, c, s)
  BY <1>1, <1>2 DEF Sound, LoadSound, Served
<1>4. OpenOK(r2) /\ StepSound(r2, m)
  BY <1>2 DEF Sound, OpenOK, StepSound, Targeted
<1>5. Bounded(r2, m, o)
  BY <1>2 DEF Sound, Bounded, Working, Steps, Loading
<1>6. Explained(r2, m) /\ Excused(q, r2, m)
  BY <1>2, AccountKept
<1>7. ChainOK(q, r2) /\ ChainSound(q, r2)
  BY <1>1, <1>2, ChainKept
<1> QED
  BY <1>3, <1>4, <1>5, <1>6, <1>7 DEF Sound

LEMMA CreateStep ==
    ASSUME NEW q, NEW r, NEW m, NEW c, NEW s, NEW o \in 0..MaxOpens,
           Sound(q, r, m, c, s, o), r.step = "create",
           NEW r2, r2 = [r EXCEPT !.step = "encode"],
           NEW m2, m2 = [m EXCEPT ![r.name] = Broken]
    PROVE  Sound(q, r2, m2, c, s, o)
<1>0. CacheOK(m, c, s) /\ Honest(m, c, s)
  BY DEF Sound
<1>1. r.step \in Working /\ r.name \in Names /\ r \in Opens
  BY DEF Working, Steps, Sound, LoadSound, OpenOK
<1>2. /\ r2 \in Opens /\ r2.name = r.name /\ r2.meta = r.meta /\ r2.step = "encode"
      /\ r2.served = r.served /\ r2.tag = r.tag /\ r2.old = r.old
  BY <1>1 DEF Opens, Steps
<1>3. CacheOK(m2, c, s) /\ m2[r.name] = Broken /\ \A k \in Names : k # r.name => m2[k] = m[k]
  BY <1>0, <1>1 DEF CacheOK
<1>4. Honest(m2, c, s)
  BY <1>0, <1>3 DEF Honest
<1>5. LoadSound(r2, c, s)
  BY <1>1, <1>2 DEF Sound, LoadSound, Served
<1>6. OpenOK(r2) /\ StepSound(r2, m2)
  BY <1>2 DEF Sound, OpenOK, StepSound, Targeted
<1>7. Bounded(r2, m2, o)
  BY <1>1, <1>2, <1>3 DEF Sound, Bounded, Working, Steps, Loading
<1>8. Explained(r2, m2) /\ Excused(q, r2, m2)
  <2>1. m[r.name] # Broken
    BY DEF Sound, StepSound
  <2>2. \A n : Stuck(n, r, m) => Stuck(n, r2, m2)
    BY <1>2, <1>3, <2>1 DEF Stuck
  <2> QED
    BY <1>2, <2>2 DEF Sound, Explained, Excused
<1>9. ChainOK(q, r2) /\ ChainSound(q, r2)
  BY <1>1, <1>2, ChainKept
<1> QED
  BY <1>3, <1>4, <1>5, <1>6, <1>7, <1>8, <1>9 DEF Sound

LEMMA EncodeStep ==
    ASSUME NEW q, NEW r, NEW m, NEW c, NEW s, NEW o \in 0..MaxOpens,
           Sound(q, r, m, c, s, o), r.step = "encode",
           NEW r2, r2 = [r EXCEPT !.step = "remove"], NEW x,
           x = [tag |-> r.tag, generation |-> r.meta.generation],
           NEW m2, m2 = [m EXCEPT ![r.name] = x]
    PROVE  Sound(q, r2, m2, c, s, o)
<1>0. CacheOK(m, c, s) /\ Honest(m, c, s)
  BY DEF Sound
<1>1. r.step \in Working \ {"read"} /\ r.name \in Names /\ r \in Opens
  BY DEF Working, Steps, Sound, LoadSound, OpenOK
<1>2. /\ r2 \in Opens /\ r2.name = r.name /\ r2.meta = r.meta /\ r2.step = "remove"
      /\ r2.served = r.served /\ r2.tag = r.tag /\ r2.old = r.old
  BY <1>1 DEF Opens, Steps
<1>3. /\ r.old \in Nat /\ r.meta.generation = r.old + 1 /\ r.old < o
  <2>1. r.old \in Nat
    BY <1>1, NextGeneration
  <2> QED
    BY <1>1, <2>1 DEF Sound, StepSound, Targeted, Bounded
<1>4. x \in Metas /\ x # Broken /\ x.tag = r.tag /\ x.generation = r.meta.generation
  BY <1>1, NothingAssumption DEF Opens, Metas
<1>5. CacheOK(m2, c, s) /\ m2[r.name] = x /\ \A k \in Names : k # r.name => m2[k] = m[k]
  BY <1>0, <1>1, <1>4 DEF CacheOK
<1>6. Honest(m2, c, s)
  <2>1. /\ TagIsOf(r.name, r.tag, r.served, s)
        /\ Full(c[r.name][r.meta.generation], r.served)
    BY DEF Sound, LoadSound, Served
  <2>2. Describes(r.name, r.tag, c[r.name][r.meta.generation], s)
    BY <2>1 DEF TagIsOf, Describes
  <2> QED
    BY <1>0, <1>4, <1>5, <2>2 DEF Honest
<1>7. LoadSound(r2, c, s)
  BY <1>1, <1>2 DEF Sound, LoadSound, Served
<1>8. OpenOK(r2) /\ StepSound(r2, m2)
  BY <1>1, <1>2, <1>3, <1>5 DEF OpenOK, StepSound, Targeted
<1>9. Bounded(r2, m2, o)
  <2>1. \A k \in Names : m2[k] # Broken => m2[k].generation <= o
    <3> SUFFICES ASSUME NEW k \in Names, m2[k] # Broken
                 PROVE  m2[k].generation <= o
      OBVIOUS
    <3>1. CASE k = r.name
      BY <1>3, <1>4, <1>5, <3>1
    <3>2. CASE k # r.name
      BY <1>5, <3>2 DEF Sound, Bounded
    <3> QED
      BY <3>1, <3>2
  <2> QED
    BY <1>2, <1>3, <2>1 DEF Bounded, Loading
<1>10. Explained(r2, m2) /\ Excused(q, r2, m2)
  <2>1. \A n : Stuck(n, r, m) => Stuck(n, r2, m2)
    BY <1>2, <1>5 DEF Stuck
  <2> QED
    BY <1>2, <2>1 DEF Sound, Explained, Excused
<1>11. ChainOK(q, r2) /\ ChainSound(q, r2)
  BY <1>1, <1>2, ChainKept
<1> QED
  BY <1>5, <1>6, <1>7, <1>8, <1>9, <1>10, <1>11 DEF Sound

\* The old directory is removed: not the one the metadata names.
LEMMA RemoveStep ==
    ASSUME NEW q, NEW r, NEW m, NEW c, NEW s, NEW o \in 0..MaxOpens,
           Sound(q, r, m, c, s, o), r.step = "remove",
           NEW r2, r2 = [r EXCEPT !.step = "done"],
           NEW c2, c2 = Written(c, r.name, r.old, NoDir)
    PROVE  Sound(q, r2, m, c2, s, o)
<1>0. CacheOK(m, c, s) /\ Honest(m, c, s)
  BY DEF Sound
<1>1. r.step \in Working \ {"read"} /\ r.name \in Names /\ r \in Opens
  BY DEF Working, Steps, Sound, LoadSound, OpenOK
<1>2. /\ r2 \in Opens /\ r2.name = r.name /\ r2.meta = r.meta /\ r2.step = "done"
      /\ r2.served = r.served /\ r2.tag = r.tag /\ r2.old = r.old
  BY <1>1 DEF Opens, Steps
<1>n. PICK n \in Names : n = r.name
  BY <1>1
<1>g. PICK g \in Generations : g = r.old
  BY <1>1 DEF Opens
<1>3. g \in Nat /\ r.meta.generation = g + 1 /\ r.meta.generation \in Generations
  <2>1. r.old \in Nat
    BY <1>1, NextGeneration
  <2> QED
    BY <1>1, <1>g, <2>1 DEF Sound, StepSound, Targeted, Opens, Metas
<1>4. CacheOK(m, c2, s) /\ Elsewhere(c2, c, n, g)
  <2>1. c2 = Written(c, n, g, NoDir) /\ NoDir \in Dirs \cup {NoDir}
    BY <1>n, <1>g
  <2> QED
    BY <1>0, <2>1, DirWritten
<1>5. Honest(m, c2, s)
  <2>1. m[n] = [tag |-> r.tag, generation |-> r.meta.generation]
    BY <1>n DEF Sound, StepSound
  <2>2. m[n].generation # g
    BY <1>3, <2>1
  <2> QED
    BY <1>0, <1>4, <2>2, HonestKept
<1>6. c2[r.name][r.meta.generation] = c[r.name][r.meta.generation]
  BY <1>3, <1>4, <1>n DEF Elsewhere
<1>7. LoadSound(r2, c2, s)
  <2>1. /\ Full(c[r.name][r.meta.generation], r.served)
        /\ r.served \in Offers[r.name] \ {Missing}
    BY DEF Sound, LoadSound, Served
  <2> QED
    BY <1>1, <1>2, <1>6, <2>1 DEF LoadSound, Served
<1>8. OpenOK(r2) /\ StepSound(r2, m)
  BY <1>2 DEF OpenOK, StepSound, Targeted
<1>9. Bounded(r2, m, o)
  BY <1>2 DEF Sound, Bounded, Working, Loading
<1>10. Explained(r2, m) /\ Excused(q, r2, m)
  BY <1>2, AccountKept
<1>11. ChainOK(q, r2) /\ ChainSound(q, r2)
  BY <1>1, <1>2, ChainKept
<1> QED
  BY <1>4, <1>5, <1>7, <1>8, <1>9, <1>10, <1>11 DEF Sound

-----------------------------------------------------------------------------
(* The actions of an open *)

\* What a step changes of the one process, and what a step of its open leaves alone.
LEMMA OpenGoes ==
    ASSUME NEW p, Procs = {p}, IInv, NEW r2, Goto(p, r2), UNCHANGED request
    PROVE  /\ proc'[p] = r2 /\ request'[p] = request[p]
           /\ DOMAIN proc' = Procs /\ DOMAIN request' = Procs
BY OneProcess DEF Goto

LEMMA LocalIsThere ==
    ASSUME NEW q, NEW r, NEW m, NEW c, NEW s, NEW o, Sound(q, r, m, c, s, o),
           r.name \in Local
    PROVE  s[r.name] # Missing /\ TagOf[s[r.name]] # NoTag
BY ShapeAssumption DEF Sound, CacheOK

LEMMA FileWritten ==
    ASSUME NEW q, NEW r, NEW m, NEW c, NEW s, NEW o, Sound(q, r, m, c, s, o),
           r.step = "extract", NEW f \in r.todo,
           NEW c2, c2 = Extracting(c, r, f)
    PROVE  \E d \in Dirs : c2 = Written(c, r.name, r.meta.generation, d) /\ WithFile(d, c, r, f)
<1>1. /\ r.name \in Names /\ r \in Opens /\ r.meta.generation \in Generations
      /\ f \in Files /\ r.served \in Versions
  <2>1. r.name \in Names /\ r \in Opens
    BY DEF Working, Steps, Sound, LoadSound, OpenOK
  <2>2. r.served \in Offers[r.name] \ {Missing}
    BY DEF Sound, LoadSound
  <2> QED
    BY <2>1, <2>2, ShapeAssumption DEF Opens, Metas
<1>2. c[r.name][r.meta.generation] \in Dirs /\ c[r.name][r.meta.generation] # NoDir
  BY <1>1 DEF CacheOK, Sound, LoadSound
<1> DEFINE d == [c[r.name][r.meta.generation] EXCEPT ![f] = r.served]
<1>3. d \in Dirs /\ WithFile(d, c, r, f)
  BY <1>1, <1>2 DEF Dirs, WithFile
<1>4. c2 = Written(c, r.name, r.meta.generation, d)
  BY <1>1, <1>2 DEF Written, Extracting, CacheOK, Sound
<1> QED
  BY <1>3, <1>4

LEMMA WorkInv ==
    ASSUME NEW p, Procs = {p}, IInv, Work(p), UNCHANGED request
    PROVE  IInv'
<1>q. PICK q : q = request[p]
  OBVIOUS
<1>r. PICK r : r = proc[p]
  OBVIOUS
<1>0. /\ CountersOK(second, opens, faults)
      /\ Sound(q, r, metadata, content, server, opens)
      /\ opens \in 0..MaxOpens /\ opens \in Nat
      /\ r \in Opens
  BY <1>q, <1>r, OneProcess, BoundsAssumption DEF CountersOK, Sound, OpenOK
<1>1. ASSUME NEW r2, Goto(p, r2), CountersOK(second', opens', faults'),
             Sound(q, r2, metadata', content', server', opens')
      PROVE  IInv'
  <2>1. /\ proc'[p] = r2 /\ request'[p] = q
        /\ DOMAIN proc' = Procs /\ DOMAIN request' = Procs
    BY <1>1, <1>q, OpenGoes
  <2> QED
    BY <1>1, <2>1, OneProcessNext
<1>2. CASE ReadMetadata(p)
  <2>1. PICK r2 : r2 = IF metadata[r.name] = Broken
                       THEN [r EXCEPT !.step = "error"]
                       ELSE [r EXCEPT !.step = "load", !.meta = metadata[r.name],
                                      !.old = metadata[r.name].generation]
    OBVIOUS
  <2>2. /\ r.step = "read" /\ Goto(p, r2)
        /\ UNCHANGED <<metadata, content, server, second, opens, faults>>
    BY <1>2, <1>r, <2>1 DEF ReadMetadata, At
  <2>3. Sound(q, r2, metadata, content, server, opens)
    BY <1>0, <2>1, <2>2, ReadStep
  <2> QED
    BY <1>0, <1>1, <2>2, <2>3
<1>3. CASE Load(p)
  <2>1. CASE TagOf[server[r.name]] # NoTag /\ TagOf[server[r.name]] = r.meta.tag
    <3>1. PICK r2 : r2 = [r EXCEPT !.step = "loaded", !.served = server[r.name], !.tag = r.meta.tag]
      OBVIOUS
    <3>2. /\ r.step = "load" /\ server[r.name] # Missing /\ Goto(p, r2)
          /\ UNCHANGED <<metadata, content, server, second, opens, faults>>
      BY <1>3, <1>r, <2>1, <3>1 DEF Load, At, Answer
    <3>3. Sound(q, r2, metadata, content, server, opens)
      BY <1>0, <2>1, <3>1, <3>2, UnchangedStep
    <3> QED
      BY <1>0, <1>1, <3>2, <3>3
  <2>2. CASE ~(TagOf[server[r.name]] # NoTag /\ TagOf[server[r.name]] = r.meta.tag)
    <3>1. PICK r2 : r2 = [r EXCEPT !.step = "extract", !.meta = TargetDir(r.meta),
                             !.served = server[r.name], !.todo = FilesOf[server[r.name]]]
      OBVIOUS
    <3>2. /\ r.step = "load" /\ server[r.name] # Missing /\ r.name \notin Local /\ Goto(p, r2)
          /\ content' = [content EXCEPT ![r.name][TargetDir(r.meta).generation] =
                            IF @ = NoDir THEN Emptied ELSE @]
          /\ UNCHANGED <<metadata, server, second, opens, faults>>
      BY <1>3, <1>r, <2>2, <3>1, Zenon DEF Load, At, Answer
    <3>3. Sound(q, r2, metadata, content', server, opens)
      BY <1>0, <3>1, <3>2, TargetStep
    <3> QED
      BY <1>0, <1>1, <3>2, <3>3
  <2> QED
    BY <2>1, <2>2
<1>4. CASE Stat(p)
  <2>1. CASE TagOf[server[r.name]] = r.meta.tag
    <3>1. PICK r2 : r2 = [r EXCEPT !.step = "loaded", !.served = server[r.name], !.tag = r.meta.tag]
      OBVIOUS
    <3>2. /\ r.step = "load" /\ r.name \in Local /\ Goto(p, r2)
          /\ UNCHANGED <<metadata, content, server, second, opens, faults>>
      BY <1>4, <1>r, <2>1, <3>1 DEF Stat, At, Answer
    <3>3. server[r.name] # Missing /\ TagOf[server[r.name]] # NoTag
      BY <1>0, <3>2, LocalIsThere
    <3>4. Sound(q, r2, metadata, content, server, opens)
      BY <1>0, <2>1, <3>1, <3>2, <3>3, UnchangedStep
    <3> QED
      BY <1>0, <1>1, <3>2, <3>4
  <2>2. CASE TagOf[server[r.name]] # r.meta.tag
    <3>1. PICK r2 : r2 = [r EXCEPT !.step = "open", !.meta = TargetDir(r.meta), !.tag = TagOf[server[r.name]]]
      OBVIOUS
    <3>2. /\ r.step = "load" /\ r.name \in Local /\ Goto(p, r2)
          /\ content' = [content EXCEPT ![r.name][TargetDir(r.meta).generation] =
                            IF @ = NoDir THEN Emptied ELSE @]
          /\ UNCHANGED <<metadata, server, second, opens, faults>>
      BY <1>4, <1>r, <2>2, <3>1, Zenon DEF Stat, At, Answer
    <3>3. server[r.name] # Missing
      BY <1>0, <3>2, LocalIsThere
    <3>4. Sound(q, r2, metadata, content', server, opens)
      BY <1>0, <3>1, <3>2, <3>3, TargetStep
    <3> QED
      BY <1>0, <1>1, <3>2, <3>4
  <2> QED
    BY <2>1, <2>2
<1>5. CASE OpenArchive(p)
  <2>1. PICK r2 : r2 = [r EXCEPT !.step = "extract", !.served = server[r.name], !.todo = FilesOf[server[r.name]]]
    OBVIOUS
  <2>2. /\ r.step = "open" /\ Goto(p, r2)
        /\ UNCHANGED <<metadata, content, server, second, opens, faults>>
    BY <1>5, <1>r, <2>1 DEF OpenArchive, At, Answer
  <2>3. Sound(q, r2, metadata, content, server, opens)
    BY <1>0, <2>1, <2>2, ArchiveStep
  <2> QED
    BY <1>0, <1>1, <2>2, <2>3
<1>6. CASE Extract(p)
  <2>1. PICK f \in r.todo :
          /\ r.step = "extract"
          /\ content' = Extracting(content, r, f)
          /\ Goto(p, [r EXCEPT !.todo = @ \ {f}])
          /\ UNCHANGED <<metadata, server, second, opens, faults>>
    BY <1>6, <1>r DEF Extract, At, Extracting
  <2>2. PICK r2 : r2 = [r EXCEPT !.todo = @ \ {f}]
    OBVIOUS
  <2>3. Goto(p, r2)
    BY <2>1, <2>2
  <2>4. PICK d \in Dirs : /\ content' = Written(content, r.name, r.meta.generation, d)
                          /\ WithFile(d, content, r, f)
    BY <1>0, <2>1, FileWritten
  <2>5. Sound(q, r2, metadata, content', server, opens)
    BY <1>0, <2>1, <2>2, <2>4, ExtractStep
  <2> QED
    BY <1>0, <1>1, <2>1, <2>3, <2>5
<1>7. CASE Extracted(p)
  <2>1. PICK tag : tag = IF r.name \in Local THEN r.tag
                         ELSE IF TagOf[r.served] = NoTag THEN second ELSE TagOf[r.served]
    OBVIOUS
  <2>2. PICK r2 : r2 = [r EXCEPT !.step = "loaded", !.tag = tag]
    OBVIOUS
  <2>3. /\ r.step = "extract" /\ r.todo = {} /\ Goto(p, r2)
        /\ UNCHANGED <<metadata, content, server, second, opens, faults>>
    BY <1>0, <1>7, <1>r, <2>1, <2>2 DEF Extracted, At, Opens
  <2>4. second \in 0..MaxTicks
    BY <1>0 DEF CountersOK
  <2>5. Sound(q, r2, metadata, content, server, opens)
    BY <1>0, <2>1, <2>2, <2>3, <2>4, ExtractedStep
  <2> QED
    BY <1>0, <1>1, <2>3, <2>5
<1>8. CASE CompareTag(p)
  <2>1. PICK r2 : r2 = [r EXCEPT !.step = IF r.tag = r.meta.tag THEN "done" ELSE "create"]
    OBVIOUS
  <2>2. /\ r.step = "loaded" /\ Goto(p, r2)
        /\ UNCHANGED <<metadata, content, server, second, opens, faults>>
    BY <1>8, <1>r, <2>1 DEF CompareTag, At
  <2>3. Sound(q, r2, metadata, content, server, opens)
    BY <1>0, <2>1, <2>2, CompareStep
  <2> QED
    BY <1>0, <1>1, <2>2, <2>3
<1>9. CASE CreateMetadata(p)
  <2>1. PICK r2 : r2 = [r EXCEPT !.step = "encode"]
    OBVIOUS
  <2>2. /\ r.step = "create" /\ Goto(p, r2)
        /\ metadata' = [metadata EXCEPT ![r.name] = Broken]
        /\ UNCHANGED <<content, server, second, opens, faults>>
    BY <1>9, <1>r, <2>1 DEF CreateMetadata, At
  <2>3. Sound(q, r2, metadata', content, server, opens)
    BY <1>0, <2>1, <2>2, CreateStep
  <2> QED
    BY <1>0, <1>1, <2>2, <2>3
<1>10. CASE EncodeMetadata(p)
  <2>1. PICK r2 : r2 = [r EXCEPT !.step = "remove"]
    OBVIOUS
  <2>2. PICK x : x = [tag |-> r.tag, generation |-> r.meta.generation]
    OBVIOUS
  <2>3. /\ r.step = "encode" /\ Goto(p, r2)
        /\ metadata' = [metadata EXCEPT ![r.name] = x]
        /\ UNCHANGED <<content, server, second, opens, faults>>
    BY <1>10, <1>r, <2>1, <2>2 DEF EncodeMetadata, At
  <2>4. Sound(q, r2, metadata', content, server, opens)
    BY <1>0, <2>1, <2>2, <2>3, EncodeStep
  <2> QED
    BY <1>0, <1>1, <2>3, <2>4
<1>11. CASE RemoveOld(p)
  <2>1. PICK r2 : r2 = [r EXCEPT !.step = "done"]
    OBVIOUS
  <2>2. /\ r.step = "remove" /\ Goto(p, r2)
        /\ content' = Written(content, r.name, r.old, NoDir)
        /\ UNCHANGED <<metadata, server, second, opens, faults>>
    BY <1>11, <1>r, <2>1 DEF RemoveOld, At, Written
  <2>3. Sound(q, r2, metadata, content', server, opens)
    BY <1>0, <2>1, <2>2, RemoveStep
  <2> QED
    BY <1>0, <1>1, <2>2, <2>3
<1>12. CASE Refused(p)
  <2>1. PICK b \in BOOLEAN : b = (Meant(r.name) \notin Accepted[r.name])
    OBVIOUS
  <2>2. PICK r2 : r2 = [r EXCEPT !.step = "error", !.failed = b]
    OBVIOUS
  <2>3. /\ r.step = "load" /\ Goto(p, r2) /\ Sent(r.name) \notin Accepted[r.name]
        /\ UNCHANGED <<metadata, content, server, second, opens, faults>>
    BY <1>12, <1>r, <2>1, <2>2 DEF Refused, At
  <2>4. r.step \in Working /\ r.name \in Names
    BY <1>0, <2>3 DEF Working, Steps, Sound, LoadSound
  <2>5. b \/ (Meant(r.name) \in Accepted[r.name] /\ Sent(r.name) \notin Accepted[r.name])
    BY <2>1, <2>3
  <2>6. Sound(q, r2, metadata, content, server, opens)
    BY <1>0, <2>2, <2>3, <2>4, <2>5, ErrorStep
  <2> QED
    BY <1>0, <1>1, <2>3, <2>6
<1>13. CASE LoadFails(p)
  <2>1. PICK r2 : r2 = [r EXCEPT !.step = "error", !.failed = TRUE]
    OBVIOUS
  <2>2. /\ r.step \in {"load", "open", "extract"} /\ Goto(p, r2)
        /\ faults' = faults \/ (faults < MaxFaults /\ faults' = faults + 1)
        /\ UNCHANGED <<metadata, content, server, second, opens>>
    BY <1>13, <1>r, <2>1 DEF LoadFails, At
  <2>3. r.step \in Working
    BY <2>2 DEF Working, Steps
  <2>4. Sound(q, r2, metadata, content, server, opens)
    BY <1>0, <2>1, <2>3, ErrorStep
  <2>5. CountersOK(second', opens', faults')
    BY <1>0, <2>2, BoundsAssumption DEF CountersOK
  <2> QED
    BY <1>1, <2>2, <2>4, <2>5
<1>14. CASE MetadataFails(p)
  <2>1. PICK r2 : r2 = [r EXCEPT !.step = "error", !.failed = TRUE]
    OBVIOUS
  <2>2. /\ r.step \in {"create", "encode"} /\ Goto(p, r2)
        /\ faults < MaxFaults /\ faults' = faults + 1
        /\ UNCHANGED <<metadata, content, server, second, opens>>
    BY <1>14, <1>r, <2>1 DEF MetadataFails, At
  <2>3. r.step \in Working
    BY <2>2 DEF Working, Steps
  <2>4. CountersOK(second', opens', faults')
    BY <1>0, <2>2, BoundsAssumption DEF CountersOK
  <2>5. Sound(q, r2, metadata, content, server, opens)
    BY <1>0, <2>1, <2>3, <2>4, ErrorStep
  <2> QED
    BY <1>1, <2>2, <2>4, <2>5
<1> QED
  BY <1>2, <1>3, <1>4, <1>5, <1>6, <1>7, <1>8, <1>9, <1>10, <1>11, <1>12, <1>13, <1>14 DEF Work

-----------------------------------------------------------------------------
(* The actions of a chain *)

\* A chain that waits for no open has none that works.
LEMMA AtRest ==
    ASSUME NEW q, NEW r, NEW m, NEW c, NEW s, NEW o, Sound(q, r, m, c, s, o),
           q.at \notin {"index", "archive"}
    PROVE  r.step \in {"idle", "done", "error"}
<1>1. q.at \in {"idle", "next", "failed"} \/ q.at = "opened"
  BY DEF Sound, ChainOK
<1>2. ASSUME q.at = "opened", r.name = NoName
      PROVE  r.step \in {"idle", "done", "error"}
  <2>1. r.step \notin Working
    BY <1>2, ShapeAssumption DEF Sound, LoadSound
  <2> QED
    BY <2>1 DEF Sound, OpenOK, Opens, Working
<1> QED
  BY <1>1, <1>2 DEF Sound, ChainOK, ChainSound

\* The candidate whose turn it is
LEMMA CandidateTypes ==
    ASSUME NEW q, q.url \in Urls, q.turn \in 0..Len(Candidates[q.url]),
           Len(Candidates[q.url]) - q.turn > 0
    PROVE  /\ q.turn + 1 \in 0..Len(Candidates[q.url])
           /\ LET x == Candidates[q.url][q.turn + 1] IN
              /\ x.kind # "directory" => x.name \in Names /\ x.name \in LoadedFrom(x)
              /\ x.kind = "helm" => \A v \in Offers[x.name] \ {Missing} : IndexFile \in FilesOf[v]
<1>1. PICK l \in Nat : l = Len(Candidates[q.url])
  BY CandidatesAssumption
<1>2. q.turn + 1 \in 1..l
  BY <1>1
<1>3. q.turn + 1 \in DOMAIN Candidates[q.url]
  BY <1>1, <1>2, CandidatesAssumption
<1> QED
  BY <1>1, <1>2, <1>3, CandidatesAssumption, ShapeAssumption DEF LoadedFrom

\* The chain goes on, the open is left alone.
LEMMA ChainStep ==
    ASSUME NEW q, NEW r, NEW m, NEW c, NEW s, NEW o, Sound(q, r, m, c, s, o),
           NEW q2, ChainOK(q2, r), ChainSound(q2, r), Excused(q2, r, m)
    PROVE  Sound(q2, r, m, c, s, o)
BY DEF Sound

\* An open begins.
LEMMA OpenStep ==
    ASSUME NEW q, NEW r, NEW m, NEW c, NEW s, NEW o \in Nat, Sound(q, r, m, c, s, o),
           r.step \in {"idle", "done", "error"}, NEW n \in Names,
           NEW r2, r2 = [Idle0 EXCEPT !.step = "read", !.name = n],
           NEW q2, ChainOK(q2, r2), ChainSound(q2, r2), Excused(q2, r, m)
    PROVE  Sound(q2, r2, m, c, s, o + 1)
<1>1. r2 \in Opens /\ r2.step = "read" /\ r2.name = n
  <2>1. Idle0 \in Opens
    BY BoundsAssumption DEF Idle0, Opens, Steps, Metas, Tags, Generations
  <2> QED
    BY <2>1 DEF Opens, Steps
<1>2. OpenOK(r2) /\ LoadSound(r2, c, s) /\ StepSound(r2, m)
  BY <1>1 DEF OpenOK, LoadSound, StepSound, Served, Targeted
<1>3. Bounded(r2, m, o + 1)
  <2>1. \A k \in Names : m[k] # Broken => m[k].generation \in Nat /\ m[k].generation <= o
    BY DEF Sound, Bounded, CacheOK, Metas, Generations
  <2>2. \A k \in Names : m[k] # Broken => m[k].generation <= o + 1 /\ m[k].generation < o + 1
    BY <2>1
  <2> QED
    BY <1>1, <2>2 DEF Bounded
<1>4. Explained(r2, m) /\ Excused(q2, r2, m)
  BY <1>1, ExcusedKept DEF Explained
<1> QED
  BY <1>2, <1>3, <1>4 DEF Sound

\* There is no open any more.
LEMMA IdleStep ==
    ASSUME NEW q, NEW r, NEW m, NEW c, NEW s, NEW o \in Nat, Sound(q, r, m, c, s, o),
           NEW q2, ChainOK(q2, Idle0), ChainSound(q2, Idle0), Excused(q2, r, m)
    PROVE  Sound(q2, Idle0, m, c, s, o)
<1>1. Idle0 \in Opens /\ Idle0.step = "idle"
  BY BoundsAssumption DEF Idle0, Opens, Steps, Metas, Tags, Generations
<1>2. OpenOK(Idle0) /\ LoadSound(Idle0, c, s) /\ StepSound(Idle0, m)
  BY <1>1 DEF OpenOK, LoadSound, StepSound, Served, Targeted, Working
<1>3. Bounded(Idle0, m, o)
  BY <1>1 DEF Sound, Bounded, Working, Loading
<1>4. Explained(Idle0, m) /\ Excused(q2, Idle0, m)
  BY <1>1, ExcusedKept DEF Explained
<1> QED
  BY <1>2, <1>3, <1>4 DEF Sound

\* The chain with other counts
Counting(q, at, turn, e) == [q EXCEPT !.at = at, !.turn = turn, !.excused = e]

LEMMA Recounted ==
    ASSUME NEW q, q \in Requests, NEW at, at = "next" \/ at = "opened",
           NEW turn, turn \in Nat, NEW e, e \in SUBSET Nat, NEW q2, q2 = Counting(q, at, turn, e)
    PROVE  /\ q2 \in Requests /\ q2.at = at /\ q2.turn = turn /\ q2.excused = e
           /\ q2.url = q.url /\ q2.index = q.index
BY DEF Requests, Counting

\* The candidates behind the next chain were behind this one, or are excused, or the one
\* that has just failed at a stuck name.
LEMMA ExcusedOn ==
    ASSUME NEW q, NEW r, NEW m, Excused(q, r, m), NEW q2, q2.url = q.url,
           q.excused \subseteq q2.excused,
           \A i \in Behind(q2) \ q2.excused :
              \/ i \in Behind(q)
              \/ i = q.turn /\ r.name \in LoadedFrom(Current(q)) /\ Stuck(r.name, r, m)
    PROVE  Excused(q2, r, m)
<1> SUFFICES ASSUME NEW i \in Behind(q2) \ q2.excused
             PROVE  \E n \in LoadedFrom(Candidates[q.url][i]) : Stuck(n, r, m)
  BY DEF Excused
<1>1. CASE i \in Behind(q)
  BY <1>1 DEF Excused
<1>2. CASE i = q.turn /\ r.name \in LoadedFrom(Current(q)) /\ Stuck(r.name, r, m)
  BY <1>2 DEF Current
<1> QED
  BY <1>1, <1>2

\* How far the chain is behind its turn
LEMMA BehindIs ==
    ASSUME NEW q, q.turn \in Nat
    PROVE  /\ q.at \in {"next", "failed"} => Behind(q) = 1..q.turn
           /\ q.at \in {"index", "archive", "opened"} => Behind(q) = 1..(q.turn - 1)
           /\ \A i \in 1..(q.turn + 1) : i \in 1..q.turn \/ i = q.turn + 1
           /\ \A i \in 1..q.turn : i \in 1..(q.turn - 1) \/ i = q.turn
           /\ q.turn + 1 - 1 = q.turn
BY DEF Behind

LEMMA ChainInv ==
    ASSUME NEW p, Procs = {p}, IInv,
           \/ Ask(p) \/ TryArchive(p) \/ TryHelm(p) \/ TryDirectory(p) \/ CandidateFails(p)
           \/ NoneLeft(p) \/ ReadIndex(p) \/ NotIndexed(p) \/ ArchiveOpened(p) \/ ProcessDies(p)
    PROVE  IInv'
<1>q. PICK q : q = request[p]
  OBVIOUS
<1>r. PICK r : r = proc[p]
  OBVIOUS
<1>0. /\ DOMAIN proc = Procs /\ DOMAIN request = Procs
      /\ CountersOK(second, opens, faults)
      /\ Sound(q, r, metadata, content, server, opens)
      /\ opens \in Nat
  BY <1>q, <1>r, OneProcess, BoundsAssumption DEF CountersOK
<1>t. /\ q \in Requests /\ q.index \in Versions \cup {Missing}
      /\ q.at # "idle" => /\ q.url \in Urls /\ q.turn \in 0..Len(Candidates[q.url])
                          /\ q.excused \subseteq 1..q.turn
      /\ q.turn \in Nat
      /\ ChainOK(q, r) /\ ChainSound(q, r)
      /\ Explained(r, metadata) /\ Excused(q, r, metadata)
  BY <1>0 DEF Sound, ChainOK, ChainSound, Request0, Requests
<1>1. ASSUME NEW q2, NEW r2, Turn(p, q2), Goto(p, r2) \/ (proc' = proc /\ r2 = r),
             CountersOK(second', opens', faults'),
             Sound(q2, r2, metadata', content', server', opens')
      PROVE  IInv'
  <2>1. /\ proc'[p] = r2 /\ request'[p] = q2
        /\ DOMAIN proc' = Procs /\ DOMAIN request' = Procs
    BY <1>0, <1>1, <1>r DEF Turn, Goto
  <2> QED
    BY <1>1, <2>1, OneProcessNext
<1>2. ASSUME NEW q2, Turn(p, q2), UNCHANGED vars, ChainOK(q2, r), ChainSound(q2, r),
             Excused(q2, r, metadata)
      PROVE  IInv'
  <2>1. Sound(q2, r, metadata, content, server, opens)
    BY <1>0, <1>2, ChainStep
  <2>2. /\ metadata' = metadata /\ content' = content /\ proc' = proc /\ server' = server
        /\ second' = second /\ opens' = opens /\ faults' = faults
    BY <1>2 DEF vars
  <2> QED
    BY <1>0, <1>1, <1>2, <2>1, <2>2
<1>3. ASSUME NEW q2, NEW n \in Names, Open(p, n), Turn(p, q2),
             q2.at \in {"index", "archive"}, q2 \in Requests,
             q2.url \in Urls, q2.turn \in 0..Len(Candidates[q2.url]), q2.excused \subseteq 1..q2.turn,
             0 < q2.turn, n \in LoadedFrom(Current(q2)), Excused(q2, r, metadata),
             q2.at = "index" => /\ Current(q2).kind = "helm" /\ n = Current(q2).name
                                /\ \A v \in Offers[n] \ {Missing} : IndexFile \in FilesOf[v],
             q2.at = "archive" /\ q2.index # Missing => n = ChartOf[q2.index]
      PROVE  IInv'
  <2>1. PICK r2 : r2 = [Idle0 EXCEPT !.step = "read", !.name = n]
    OBVIOUS
  <2>2. /\ r.step \in {"idle", "done", "error"} /\ opens < MaxOpens /\ opens' = opens + 1
        /\ Goto(p, r2)
        /\ UNCHANGED <<metadata, content, server, second, faults>>
    BY <1>3, <1>r, <2>1 DEF Open
  <2>3. r2.name = n /\ n # NoName
    BY <2>1, ShapeAssumption DEF Idle0
  <2>4. ChainOK(q2, r2) /\ ChainSound(q2, r2)
    BY <1>3, <2>3 DEF ChainOK, ChainSound, Requests
  <2>5. Sound(q2, r2, metadata, content, server, opens + 1)
    BY <1>0, <1>3, <2>1, <2>2, <2>4, OpenStep
  <2>6. CountersOK(second', opens', faults')
    BY <1>0, <2>2, BoundsAssumption DEF CountersOK
  <2> QED
    BY <1>1, <1>3, <2>2, <2>5, <2>6
<1>4. CASE Ask(p)
  <2>1. PICK u \in Urls : Turn(p, [Request0 EXCEPT !.at = "next", !.url = u])
    BY <1>4 DEF Ask
  <2>2. PICK q2 : q2 = [Request0 EXCEPT !.at = "next", !.url = u]
    OBVIOUS
  <2>3. /\ q2 \in Requests /\ q2.at = "next" /\ q2.url = u /\ q2.turn = 0 /\ q2.excused = {}
        /\ q2.index = Missing
    BY <2>2 DEF Request0, Requests
  <2>4. r.step \in {"idle", "done", "error"}
    <3>1. q.at \notin {"index", "archive"}
      BY <1>4, <1>q DEF Ask
    <3> QED
      BY <1>0, <3>1, AtRest
  <2>5. 0 \in 0..Len(Candidates[u])
    <3>1. Len(Candidates[u]) \in Nat
      BY CandidatesAssumption
    <3> QED
      BY <3>1
  <2>6. ChainOK(q2, r) /\ ChainSound(q2, r) /\ Excused(q2, r, metadata)
    BY <2>3, <2>4, <2>5 DEF ChainOK, ChainSound, Excused, Behind
  <2>7. Turn(p, q2) /\ UNCHANGED vars
    BY <1>4, <2>1, <2>2 DEF Ask
  <2> QED
    BY <1>2, <2>6, <2>7
<1>5. ASSUME Asked(p, "next"), Left(p) > 0
      PROVE  /\ q.at = "next" /\ q.turn + 1 \in 0..Len(Candidates[q.url]) /\ q.turn + 1 \in Nat
             /\ q.turn \in Nat /\ q.excused \subseteq 1..q.turn
             /\ NextCandidate(p) = Candidates[q.url][q.turn + 1]
             /\ NextCandidate(p).kind # "directory" =>
                   /\ NextCandidate(p).name \in Names
                   /\ NextCandidate(p).name \in LoadedFrom(NextCandidate(p))
             /\ NextCandidate(p).kind = "helm" =>
                   \A v \in Offers[NextCandidate(p).name] \ {Missing} : IndexFile \in FilesOf[v]
  <2>1. q.at = "next" /\ NextCandidate(p) = Candidates[q.url][q.turn + 1]
    BY <1>5, <1>q DEF Asked, NextCandidate
  <2>2. Len(Candidates[q.url]) - q.turn > 0
    BY <1>5, <1>q DEF Left
  <2>3. q.turn \in Nat /\ q.excused \subseteq 1..q.turn
    BY <1>t, <2>1
  <2>4. q.url \in Urls /\ q.turn \in 0..Len(Candidates[q.url])
    BY <1>t, <2>1
  <2> QED
    BY <2>1, <2>2, <2>3, <2>4, CandidateTypes
<1>6. ASSUME Asked(p, "next"), Left(p) > 0, NEW q2, q2.turn = q.turn + 1, q2.url = q.url,
             q2.excused = q.excused, q2.at \in {"index", "archive", "opened"}
      PROVE  /\ q2.url \in Urls /\ q2.turn \in 0..Len(Candidates[q2.url])
             /\ q2.excused \subseteq 1..q2.turn /\ 0 < q2.turn
             /\ Current(q2) = NextCandidate(p) /\ Excused(q2, r, metadata)
  <2>1. Behind(q2) = Behind(q)
    BY <1>5, <1>6, BehindIs
  <2>2. q2.excused \subseteq 1..q2.turn /\ 0 < q2.turn
    BY <1>5, <1>6
  <2> QED
    BY <1>5, <1>6, <1>t, <2>1, <2>2, ExcusedOn DEF Current
<1>7. CASE TryArchive(p)
  <2>1. PICK q2 : q2 = [q EXCEPT !.turn = @ + 1, !.at = "archive", !.index = Missing]
    OBVIOUS
  <2>2. PICK n : n = NextCandidate(p).name
    OBVIOUS
  <2>3. /\ Asked(p, "next") /\ Left(p) > 0 /\ NextCandidate(p).kind = "archive"
        /\ Open(p, n) /\ Turn(p, q2)
    BY <1>7, <1>q, <2>1, <2>2 DEF TryArchive
  <2>4. n \in Names /\ n \in LoadedFrom(NextCandidate(p))
    BY <1>5, <2>2, <2>3
  <2>5. /\ q2 \in Requests /\ q2.at = "archive" /\ q2.url = q.url /\ q2.turn = q.turn + 1
        /\ q2.excused = q.excused /\ q2.index = Missing
    BY <1>5, <1>t, <2>1, <2>3 DEF Requests
  <2>6. /\ q2.url \in Urls /\ q2.turn \in 0..Len(Candidates[q2.url])
        /\ q2.excused \subseteq 1..q2.turn /\ 0 < q2.turn
        /\ Current(q2) = NextCandidate(p) /\ Excused(q2, r, metadata)
    BY <1>6, <2>3, <2>5
  <2> QED
    BY <1>3, <2>3, <2>4, <2>5, <2>6
<1>8. CASE TryHelm(p)
  <2>1. PICK q2 : q2 = [q EXCEPT !.turn = @ + 1, !.at = "index"]
    OBVIOUS
  <2>2. PICK n : n = NextCandidate(p).name
    OBVIOUS
  <2>3. /\ Asked(p, "next") /\ Left(p) > 0 /\ NextCandidate(p).kind = "helm"
        /\ Open(p, n) /\ Turn(p, q2)
    BY <1>8, <1>q, <2>1, <2>2 DEF TryHelm
  <2>4. /\ n \in Names /\ n \in LoadedFrom(NextCandidate(p))
        /\ \A v \in Offers[n] \ {Missing} : IndexFile \in FilesOf[v]
    BY <1>5, <2>2, <2>3
  <2>5. /\ q2 \in Requests /\ q2.at = "index" /\ q2.url = q.url /\ q2.turn = q.turn + 1
        /\ q2.excused = q.excused
    BY <1>5, <1>t, <2>1, <2>3 DEF Requests
  <2>6. /\ q2.url \in Urls /\ q2.turn \in 0..Len(Candidates[q2.url])
        /\ q2.excused \subseteq 1..q2.turn /\ 0 < q2.turn
        /\ Current(q2) = NextCandidate(p) /\ Excused(q2, r, metadata)
    BY <1>6, <2>3, <2>5
  <2> QED
    BY <1>3, <2>2, <2>3, <2>4, <2>5, <2>6
<1>9. CASE TryDirectory(p)
  <2>1. PICK q2 : /\ \/ q2 = [q EXCEPT !.turn = @ + 1, !.at = "opened"]
                     \/ q2 = [q EXCEPT !.turn = @ + 1, !.excused = @ \cup {q.turn + 1}]
                  /\ Turn(p, q2)
    BY <1>9, <1>q DEF TryDirectory
  <2>2. /\ Asked(p, "next") /\ Left(p) > 0 /\ Goto(p, Idle0)
        /\ UNCHANGED <<metadata, content, server, second, opens, faults>>
    BY <1>9 DEF TryDirectory
  <2>3. /\ q2 \in Requests /\ q2.url = q.url /\ q2.turn = q.turn + 1
        /\ \/ q2.at = "opened" /\ q2.excused = q.excused
           \/ q2.at = "next" /\ q2.excused = q.excused \cup {q.turn + 1}
    <3>1. PICK n \in Nat : n = q.turn + 1
      BY <1>5, <2>2
    <3>2. PICK e \in SUBSET Nat : e = q.excused \cup {n}
      BY <1>t DEF Requests
    <3>3. q \in Requests /\ q.at = "next" /\ q.excused \in SUBSET Nat
      BY <1>5, <1>t, <2>2 DEF Requests
    <3>4. CASE q2 = [q EXCEPT !.turn = @ + 1, !.at = "opened"]
      <4>1. q2 = Counting(q, "opened", n, q.excused)
        BY <3>1, <3>3, <3>4 DEF Requests, Counting
      <4>2. /\ q2 \in Requests /\ q2.at = "opened" /\ q2.turn = n /\ q2.excused = q.excused
            /\ q2.url = q.url /\ q2.index = q.index
        BY <3>3, <4>1, Recounted
      <4> QED
        BY <3>1, <4>2
    <3>5. CASE q2 = [q EXCEPT !.turn = @ + 1, !.excused = @ \cup {q.turn + 1}]
      <4>1. q2 = Counting(q, "next", n, e)
        BY <3>1, <3>2, <3>3, <3>5 DEF Requests, Counting
      <4>2. /\ q2 \in Requests /\ q2.at = "next" /\ q2.turn = n /\ q2.excused = e
            /\ q2.url = q.url /\ q2.index = q.index
        BY <3>3, <4>1 DEF Requests, Counting
      <4> QED
        BY <3>1, <3>2, <4>2
    <3> QED
      BY <2>1, <3>4, <3>5
  <2>4. Idle0.step = "idle" /\ Idle0.name = NoName
    BY DEF Idle0
  <2>5. /\ q2.url \in Urls /\ q2.turn \in 0..Len(Candidates[q2.url])
        /\ q2.excused \subseteq 1..q2.turn /\ Excused(q2, r, metadata)
    <3>1. CASE q2.at = "opened" /\ q2.excused = q.excused
      BY <1>6, <2>2, <2>3, <3>1
    <3>2. CASE q2.at = "next" /\ q2.excused = q.excused \cup {q.turn + 1}
      <4>1. Behind(q2) = 1..(q.turn + 1) /\ Behind(q) = 1..q.turn
        BY <1>5, <2>2, <2>3, <3>2, BehindIs
      <4>2. \A i \in Behind(q2) \ q2.excused : i \in Behind(q)
        BY <1>t, <3>2, <4>1, BehindIs
      <4>3. q2.excused \subseteq 1..q2.turn
        BY <1>5, <2>2, <2>3, <3>2
      <4> QED
        BY <1>5, <1>t, <2>2, <2>3, <3>2, <4>2, <4>3, ExcusedOn
    <3> QED
      BY <2>3, <3>1, <3>2
  <2>6. q2.index \in Versions \cup {Missing}
    BY <2>3 DEF Requests
  <2>7. ChainOK(q2, Idle0) /\ ChainSound(q2, Idle0)
    BY <2>3, <2>4, <2>5, <2>6 DEF ChainOK, ChainSound
  <2>8. Sound(q2, Idle0, metadata, content, server, opens)
    BY <1>0, <2>5, <2>7, IdleStep
  <2> QED
    BY <1>0, <1>1, <2>1, <2>2, <2>8
<1>10. ASSUME q.at \in {"index", "archive"}, NEW e \in SUBSET Nat,
              e = q.excused \/ e = q.excused \cup {q.turn},
              NEW q2, q2 = Counting(q, "next", q.turn, e), ~(q.turn \in e) => Stuck(r.name, r, metadata)
       PROVE  /\ ChainOK(q2, r) \/ r.step \notin {"idle", "done", "error"}
              /\ ChainSound(q2, r) /\ Excused(q2, r, metadata)
  <2>1. /\ q2 \in Requests /\ q2.at = "next" /\ q2.turn = q.turn /\ q2.excused = e
        /\ q2.url = q.url /\ q2.index = q.index
    BY <1>10, <1>t, Recounted
  <2>2. /\ q.turn \in Nat /\ q.excused \subseteq 1..q.turn /\ 0 < q.turn
        /\ q.url \in Urls /\ q.turn \in 0..Len(Candidates[q.url])
        /\ r.name \in LoadedFrom(Current(q))
    BY <1>10, <1>t DEF ChainSound
  <2>3. e \subseteq 1..q.turn
    BY <1>10, <2>2
  <2>4. Behind(q2) = 1..q.turn /\ Behind(q) = 1..(q.turn - 1)
    BY <1>10, <2>1, <2>2, BehindIs
  <2>5. \A i \in Behind(q2) \ q2.excused : i \in Behind(q) \/ (i = q.turn /\ Stuck(r.name, r, metadata))
    BY <1>10, <1>t, <2>1, <2>4, BehindIs
  <2>6. Excused(q2, r, metadata)
    BY <1>10, <1>t, <2>1, <2>2, <2>5, ExcusedOn
  <2>7. ChainOK(q2, r) \/ r.step \notin {"idle", "done", "error"}
    BY <1>t, <2>1, <2>2, <2>3 DEF ChainOK
  <2> QED
    BY <2>1, <2>6, <2>7 DEF ChainSound
<1>11. CASE CandidateFails(p)
  <2>1. PICK e : e = IF r.failed THEN q.excused \cup {q.turn} ELSE q.excused
    OBVIOUS
  <2>2. q.at \in {"index", "archive"} /\ r.step = "error" /\ UNCHANGED vars
    BY <1>11, <1>q, <1>r DEF CandidateFails, Asked, At
  <2>3. PICK q2 : q2 = Counting(q, "next", q.turn, e)
    OBVIOUS
  <2>4. Turn(p, q2)
    <3>1. Turn(p, [q EXCEPT !.at = "next", !.excused = IF r.failed THEN @ \cup {q.turn} ELSE @])
      BY <1>11, <1>q, <1>r DEF CandidateFails
    <3>2. [q EXCEPT !.at = "next", !.excused = IF r.failed THEN @ \cup {q.turn} ELSE @] = q2
      BY <1>t, <2>1, <2>3 DEF Requests, Counting
    <3> QED
      BY <3>1, <3>2
  <2>5. e \in SUBSET Nat /\ (e = q.excused \/ e = q.excused \cup {q.turn})
    BY <1>t, <2>1 DEF Requests
  <2>6. ~(q.turn \in e) => Stuck(r.name, r, metadata)
    BY <1>t, <2>1, <2>2 DEF Explained
  <2> QED
    BY <1>2, <1>10, <2>2, <2>3, <2>4, <2>5, <2>6
<1>12. CASE NoneLeft(p)
  <2>1. PICK q2 : q2 = [q EXCEPT !.at = "failed"]
    OBVIOUS
  <2>2. q.at = "next" /\ Len(Candidates[q.url]) - q.turn = 0 /\ Turn(p, q2) /\ UNCHANGED vars
    BY <1>12, <1>q, <2>1 DEF NoneLeft, Asked, Left
  <2>3. /\ q2 \in Requests /\ q2.at = "failed" /\ q2.url = q.url /\ q2.turn = q.turn
        /\ q2.excused = q.excused /\ q2.index = q.index
    BY <1>t, <2>1 DEF Requests
  <2>4. Len(Candidates[q.url]) = q.turn
    <3>1. PICK l \in Nat : l = Len(Candidates[q.url])
      BY <1>t, <2>2, CandidatesAssumption
    <3>2. q.turn \in Nat
      BY <1>t
    <3> QED
      BY <2>2, <3>1, <3>2
  <2>5. ChainOK(q2, r) /\ ChainSound(q2, r)
    BY <1>t, <2>2, <2>3, <2>4 DEF ChainOK, ChainSound
  <2>6. Behind(q2) = Behind(q)
    BY <1>t, <2>2, <2>3, BehindIs
  <2>7. Excused(q2, r, metadata)
    BY <1>t, <2>3, <2>6, ExcusedOn
  <2> QED
    BY <1>2, <2>2, <2>5, <2>7
<1>13. ASSUME Asked(p, "index"), At(p, "done")
       PROVE  /\ Indexed(p) = r.served /\ r.served \in Versions
              /\ r.served \in Offers[Current(q).name] \ {Missing}
              /\ q.at = "index" /\ r.step = "done" /\ 0 < q.turn /\ Current(q).kind = "helm"
  <2>1. q.at = "index" /\ r.step = "done"
    BY <1>13, <1>q, <1>r DEF Asked, At
  <2>2. /\ 0 < q.turn /\ Current(q).kind = "helm" /\ r.name = Current(q).name
        /\ \A v \in Offers[r.name] \ {Missing} : IndexFile \in FilesOf[v]
    BY <1>t, <2>1 DEF ChainSound
  <2>3. /\ r.served \in Offers[r.name] \ {Missing}
        /\ Full(content[r.name][r.meta.generation], r.served)
    BY <1>0, <2>1 DEF Sound, LoadSound, Served
  <2>4. r.served \in Versions
    BY <1>0, <2>3 DEF Sound, OpenOK, Opens
  <2>5. Indexed(p) = r.served
    BY <1>r, <2>2, <2>3 DEF Indexed, Full
  <2> QED
    BY <2>1, <2>2, <2>3, <2>4, <2>5
<1>14. CASE ReadIndex(p)
  <2>1. PICK q2 : q2 = [q EXCEPT !.at = "archive", !.index = r.served]
    OBVIOUS
  <2>2. PICK n : n = ChartOf[r.served]
    OBVIOUS
  <2>3. Asked(p, "index") /\ At(p, "done")
    BY <1>14 DEF ReadIndex
  <2>4. n # NoName /\ Open(p, n) /\ Turn(p, q2)
    BY <1>13, <1>14, <1>q, <1>r, <2>1, <2>2, <2>3 DEF ReadIndex
  <2>5. n \in Names
    BY <1>13, <2>2, <2>3, <2>4, CandidatesAssumption
  <2>6. /\ q2 \in Requests /\ q2.at = "archive" /\ q2.url = q.url /\ q2.turn = q.turn
        /\ q2.excused = q.excused /\ q2.index = r.served
    BY <1>13, <1>t, <2>1, <2>3 DEF Requests
  <2>7. Current(q2) = Current(q)
    BY <2>6 DEF Current
  <2>8. n \in LoadedFrom(Current(q2))
    BY <1>13, <2>2, <2>3, <2>4, <2>7 DEF LoadedFrom
  <2>9. Behind(q2) = Behind(q)
    BY <1>13, <1>t, <2>3, <2>6, BehindIs
  <2>10. Excused(q2, r, metadata)
    BY <1>t, <2>6, <2>9, ExcusedOn
  <2>11. q2.url \in Urls /\ q2.turn \in 0..Len(Candidates[q2.url]) /\ q2.excused \subseteq 1..q2.turn
    BY <1>13, <1>t, <2>3, <2>6
  <2> QED
    BY <1>3, <1>13, <2>2, <2>3, <2>4, <2>5, <2>6, <2>8, <2>10, <2>11
<1>15. CASE NotIndexed(p)
  <2>1. PICK e : e = q.excused \cup {q.turn}
    OBVIOUS
  <2>2. Asked(p, "index") /\ At(p, "done") /\ UNCHANGED vars
    BY <1>15 DEF NotIndexed
  <2>3. PICK q2 : q2 = Counting(q, "next", q.turn, e)
    OBVIOUS
  <2>4. Turn(p, q2)
    <3>1. Turn(p, [q EXCEPT !.at = "next", !.excused = @ \cup {q.turn}])
      BY <1>15, <1>q DEF NotIndexed
    <3>2. [q EXCEPT !.at = "next", !.excused = @ \cup {q.turn}] = q2
      BY <1>t, <2>1, <2>3 DEF Requests, Counting
    <3> QED
      BY <3>1, <3>2
  <2>5. e \in SUBSET Nat /\ q.turn \in e
    BY <1>t, <2>1 DEF Requests
  <2>6. q.at = "index" /\ r.step = "done"
    BY <1>13, <2>2
  <2> QED
    BY <1>2, <1>10, <2>1, <2>2, <2>3, <2>4, <2>5, <2>6
<1>16. CASE ArchiveOpened(p)
  <2>1. PICK q2 : q2 = [q EXCEPT !.at = "opened"]
    OBVIOUS
  <2>2. q.at = "archive" /\ r.step = "done" /\ Turn(p, q2) /\ UNCHANGED vars
    BY <1>16, <1>q, <1>r, <2>1 DEF ArchiveOpened, Asked, At
  <2>3. /\ q2 \in Requests /\ q2.at = "opened" /\ q2.url = q.url /\ q2.turn = q.turn
        /\ q2.excused = q.excused /\ q2.index = q.index
    BY <1>t, <2>1 DEF Requests
  <2>4. ChainOK(q2, r) /\ ChainSound(q2, r)
    BY <1>t, <2>2, <2>3 DEF ChainOK, ChainSound
  <2>5. Behind(q2) = Behind(q)
    BY <1>t, <2>2, <2>3, BehindIs
  <2>6. Excused(q2, r, metadata)
    BY <1>t, <2>3, <2>5, ExcusedOn
  <2> QED
    BY <1>2, <2>2, <2>4, <2>6
<1>17. CASE ProcessDies(p)
  <2>1. /\ Turn(p, Request0) /\ Goto(p, Idle0)
        /\ faults < MaxFaults /\ faults' = faults + 1
        /\ UNCHANGED <<metadata, content, server, second, opens>>
    BY <1>17 DEF ProcessDies, Dies
  <2>2. CountersOK(second', opens', faults')
    BY <1>0, <2>1, BoundsAssumption DEF CountersOK
  <2>3. /\ Request0 \in Requests /\ Request0.at = "idle" /\ Request0.turn = 0
        /\ Request0.index \in Versions \cup {Missing}
    BY DEF Request0, Requests
  <2>4. ChainOK(Request0, Idle0) /\ ChainSound(Request0, Idle0)
    BY <2>3 DEF ChainOK, ChainSound, Idle0
  <2>5. Excused(Request0, r, metadata)
    BY <2>3 DEF Excused, Behind
  <2>6. Sound(Request0, Idle0, metadata, content, server, opens)
    BY <1>0, <2>4, <2>5, IdleStep
  <2> QED
    BY <1>1, <2>1, <2>2, <2>6
<1> QED
  BY <1>4, <1>7, <1>8, <1>9, <1>11, <1>12, <1>14, <1>15, <1>16, <1>17

-----------------------------------------------------------------------------
(* The steps around the opens *)

\* A local archive is only written over by a later one.
Later(s2, s) ==
    \A n \in Local : /\ s[n] \in Versions /\ s2[n] \in Versions
                     /\ s2[n] = s[n] \/ ModTime[s2[n]] > ModTime[s[n]]

LEMMA NewerKept ==
    ASSUME NEW s, NEW s2, Later(s2, s), NEW n, NEW w \in Versions
    PROVE  /\ Newer(n, w, s) => Newer(n, w, s2)
           /\ n \in Local /\ w = s[n] => w = s2[n] \/ Newer(n, w, s2)
<1>1. CASE n \in Local
  <2>1. /\ s[n] \in Versions /\ s2[n] \in Versions
        /\ s2[n] = s[n] \/ ModTime[s2[n]] > ModTime[s[n]]
    BY <1>1 DEF Later
  <2>2. ModTime[s[n]] \in Nat /\ ModTime[s2[n]] \in Nat /\ ModTime[w] \in Nat
    BY <2>1, ShapeAssumption
  <2> QED
    BY <1>1, <2>1, <2>2 DEF Newer
<1>2. CASE n \notin Local
  BY <1>2 DEF Newer
<1> QED
  BY <1>1, <1>2

LEMMA TagKept ==
    ASSUME NEW s, NEW s2, Later(s2, s), NEW n, NEW tag, NEW v, TagIsOf(n, tag, v, s)
    PROVE  TagIsOf(n, tag, v, s2)
<1> SUFFICES ASSUME NEW w \in Versions, TagOf[w] # NoTag, tag = TagOf[w]
             PROVE  w = v \/ Newer(n, w, s2)
  BY DEF TagIsOf
<1>1. w = v \/ Newer(n, w, s)
  BY DEF TagIsOf
<1> QED
  BY <1>1, NewerKept

LEMMA UploadStep ==
    ASSUME NEW q, NEW r, NEW m, NEW c, NEW s, NEW o, Sound(q, r, m, c, s, o),
           NEW s2, Later(s2, s), CacheOK(m, c, s2)
    PROVE  Sound(q, r, m, c, s2, o)
<1>1. Honest(m, c, s2)
  <2> SUFFICES ASSUME NEW n \in Names, m[n] # Broken, NEW w \in Versions, TagOf[w] # NoTag,
                      m[n].tag = TagOf[w]
               PROVE  Full(c[n][m[n].generation], w) \/ Newer(n, w, s2)
    BY DEF Honest, Describes
  <2>1. Full(c[n][m[n].generation], w) \/ Newer(n, w, s)
    BY DEF Sound, Honest, Describes
  <2> QED
    BY <2>1, NewerKept
<1>2. LoadSound(r, c, s)
  BY DEF Sound
<1>3. r.step = "open" => r.name \in Local /\ TagIsOf(r.name, r.tag, s2[r.name], s2)
  <2> SUFFICES ASSUME r.step = "open"
               PROVE  r.name \in Local /\ TagIsOf(r.name, r.tag, s2[r.name], s2)
    OBVIOUS
  <2>1. r.name \in Local /\ TagIsOf(r.name, r.tag, s[r.name], s)
    BY <1>2 DEF LoadSound
  <2> SUFFICES ASSUME NEW w \in Versions, TagOf[w] # NoTag, r.tag = TagOf[w]
               PROVE  w = s2[r.name] \/ Newer(r.name, w, s2)
    BY <2>1 DEF TagIsOf
  <2>2. w = s[r.name] \/ Newer(r.name, w, s)
    BY <2>1 DEF TagIsOf
  <2> QED
    BY <2>1, <2>2, NewerKept
<1>4. /\ r.step = "extract" /\ r.name \in Local => TagIsOf(r.name, r.tag, r.served, s2)
      /\ r.step \in Served \ {"done"} => TagIsOf(r.name, r.tag, r.served, s2)
  BY <1>2, TagKept DEF LoadSound
<1>5. LoadSound(r, c, s2)
  BY <1>2, <1>3, <1>4 DEF LoadSound
<1> QED
  BY <1>1, <1>5 DEF Sound

LEMMA UploadInv ==
    ASSUME NEW p, Procs = {p}, IInv, Upload, UNCHANGED request
    PROVE  IInv'
<1>1. /\ DOMAIN proc = Procs /\ DOMAIN request = Procs
      /\ CountersOK(second, opens, faults)
      /\ Sound(request[p], proc[p], metadata, content, server, opens)
  BY OneProcess
<1>n. PICK n \in Names : \E v \in Offers[n] \ {server[n]} :
         /\ n \in Local => ModTime[v] > ModTime[server[n]]
         /\ server' = [server EXCEPT ![n] = v]
  BY DEF Upload
<1>2. PICK v \in Offers[n] \ {server[n]} :
         /\ n \in Local => ModTime[v] > ModTime[server[n]]
         /\ server' = [server EXCEPT ![n] = v]
  BY <1>n
<1>3. DOMAIN server = Names /\ \A k \in Names : server[k] \in Offers[k]
  BY <1>1 DEF Sound, CacheOK
<1>4. Later(server', server)
  <2> SUFFICES ASSUME NEW k \in Local
               PROVE  /\ server[k] \in Versions /\ server'[k] \in Versions
                      /\ server'[k] = server[k] \/ ModTime[server'[k]] > ModTime[server[k]]
    BY DEF Later
  <2>1. k \in Names /\ server[k] \in Offers[k] /\ Offers[k] \subseteq Versions
    BY <1>3, ShapeAssumption
  <2>2. CASE k = n
    BY <1>2, <1>3, <2>1, <2>2
  <2>3. CASE k # n
    BY <1>2, <1>3, <2>1, <2>3
  <2> QED
    BY <2>2, <2>3
<1>5. CacheOK(metadata, content, server')
  BY <1>1, <1>2, <1>3 DEF Sound, CacheOK
<1>6. /\ metadata' = metadata /\ content' = content /\ proc' = proc /\ second' = second
      /\ opens' = opens /\ faults' = faults /\ request' = request
  BY DEF Upload
<1>7. Sound(request[p], proc[p], metadata, content, server', opens)
  BY <1>1, <1>4, <1>5, UploadStep
<1> QED
  BY <1>1, <1>6, <1>7, OneProcessNext

LEMMA TickInv ==
    ASSUME NEW p, Procs = {p}, IInv, Tick, UNCHANGED request
    PROVE  IInv'
<1>1. /\ DOMAIN proc = Procs /\ DOMAIN request = Procs
      /\ CountersOK(second, opens, faults)
      /\ Sound(request[p], proc[p], metadata, content, server, opens)
  BY OneProcess
<1>2. /\ metadata' = metadata /\ content' = content /\ proc' = proc /\ server' = server
      /\ opens' = opens /\ faults' = faults /\ request' = request
      /\ second < MaxTicks /\ second' = second + 1
  BY DEF Tick
<1>3. CountersOK(second', opens', faults')
  BY <1>1, <1>2, BoundsAssumption DEF CountersOK
<1> QED
  BY <1>1, <1>2, <1>3, OneProcessNext

LEMMA InitInv ==
    ASSUME NEW p, Procs = {p}, OpenersInit
    PROVE  IInv
<1>1. /\ metadata = [n \in Names |-> [tag |-> NoTag, generation |-> 0]]
      /\ content = [n \in Names |-> [g \in Generations |-> NoDir]]
      /\ server \in [Names -> Versions \cup {Missing}] /\ \A n \in Names : server[n] \in Offers[n]
      /\ proc = [x \in Procs |-> Idle0] /\ request = [x \in Procs |-> Request0]
      /\ second = 0 /\ opens = 0 /\ faults = 0
  BY DEF OpenersInit, Init
<1>2. proc[p] = Idle0 /\ request[p] = Request0 /\ DOMAIN proc = Procs /\ DOMAIN request = Procs
  BY <1>1
<1>3. 0 \in Generations /\ NoTag \in Tags /\ [tag |-> NoTag, generation |-> 0] \in Metas
  BY BoundsAssumption DEF Generations, Tags, Metas
<1>4. CountersOK(second, opens, faults)
  BY <1>1, BoundsAssumption DEF CountersOK
<1>5. CacheOK(metadata, content, server)
  BY <1>1, <1>3 DEF CacheOK
<1>6. /\ Idle0 \in Opens /\ Idle0.step = "idle" /\ Idle0.name = NoName
  BY <1>3 DEF Idle0, Opens, Metas, Steps
<1>7. /\ \A n \in Names : metadata[n] \in Metas /\ metadata[n].tag = NoTag /\ metadata[n].generation = 0
      /\ \A n \in Names : metadata[n] # Broken
  BY <1>1, <1>3, NothingAssumption DEF Metas
<1>8. OpenOK(Idle0) /\ LoadSound(Idle0, content, server) /\ StepSound(Idle0, metadata)
  BY <1>6 DEF OpenOK, LoadSound, StepSound, Working, Served, Targeted
<1>9. Bounded(Idle0, metadata, 0) /\ Explained(Idle0, metadata)
  BY <1>6, <1>7 DEF Bounded, Explained, Working, Loading
<1>10. Honest(metadata, content, server)
  BY <1>7 DEF Honest, Describes
<1>11. /\ Request0 \in Requests /\ Request0.at = "idle" /\ Request0.turn = 0
       /\ Request0.index \in Versions \cup {Missing}
  BY DEF Request0, Requests
<1>12. /\ ChainOK(Request0, Idle0) /\ ChainSound(Request0, Idle0)
       /\ Excused(Request0, Idle0, metadata)
  BY <1>6, <1>11 DEF ChainOK, ChainSound, Excused, Behind
<1>13. Sound(Request0, Idle0, metadata, content, server, 0)
  BY <1>5, <1>8, <1>9, <1>10, <1>12 DEF Sound
<1> QED
  BY <1>1, <1>2, <1>4, <1>13, OneProcess

-----------------------------------------------------------------------------
(* Theorems *)

LEMMA StepInv ==
    ASSUME OneAtATime, IInv, [OpenersNext]_openerVars
    PROVE  IInv'
<1> PICK p \in Procs : Procs = {p}
  BY DEF OneAtATime
<1>1. CASE \/ Ask(p) \/ TryArchive(p) \/ TryHelm(p) \/ TryDirectory(p) \/ CandidateFails(p)
           \/ NoneLeft(p) \/ ReadIndex(p) \/ NotIndexed(p) \/ ArchiveOpened(p) \/ ProcessDies(p)
  BY <1>1, ChainInv
<1>2. CASE Work(p) /\ UNCHANGED request
  BY <1>2, WorkInv
<1>3. CASE Upload /\ UNCHANGED request
  BY <1>3, UploadInv
<1>4. CASE Tick /\ UNCHANGED request
  BY <1>4, TickInv
<1>5. CASE UNCHANGED openerVars
  <2>1. /\ metadata' = metadata /\ content' = content /\ proc' = proc /\ server' = server
        /\ second' = second /\ opens' = opens /\ faults' = faults
        /\ request' = request
    BY <1>5 DEF openerVars, vars
  <2>2. /\ DOMAIN proc = Procs /\ DOMAIN request = Procs
        /\ CountersOK(second, opens, faults)
        /\ Sound(request[p], proc[p], metadata, content, server, opens)
    BY OneProcess
  <2> QED
    BY <2>1, <2>2, OneProcessNext
<1> QED
  BY <1>1, <1>2, <1>3, <1>4, <1>5 DEF OpenersNext

\* Everything below is said of every state of the openers when one command runs at a time.
THEOREM Invariance ==
    ASSUME OneAtATime PROVE OpenersSpec => []IInv
<1>1. OpenersInit => IInv
  BY InitInv DEF OneAtATime
<1>2. IInv /\ [OpenersNext]_openerVars => IInv'
  BY StepInv
<1> QED
  BY <1>1, <1>2, PTL DEF OpenersSpec

\* The chain, its open and the cache keep to their types, within the bounds.
THEOREM OpenersTypeCorrect ==
    ASSUME OneAtATime PROVE OpenersSpec => []OpenersTypeOK
<1>1. IInv => OpenersTypeOK
  BY DEF IInv
<1> QED
  BY <1>1, Invariance, PTL

\* What the metadata of a URL calls a version is that version in full, wherever loads
\* have failed or the process has died: the next 304 returns it unseen (WrapDir).
THEOREM MetadataIsHonest ==
    ASSUME OneAtATime PROVE OpenersSpec => []MetadataHonest
<1>1. IInv => MetadataHonest
  <2> SUFFICES ASSUME IInv, NEW n \in Names \ Local, metadata[n] # Broken,
                      NEW v \in Versions, TagOf[v] # NoTag, metadata[n].tag = TagOf[v]
               PROVE  Complete(n, metadata[n].generation, v)
    BY DEF MetadataHonest
  <2>1. Describes(n, metadata[n].tag, content[n][metadata[n].generation], server)
    BY DEF IInv, Honest
  <2>2. Full(content[n][metadata[n].generation], v)
    BY <2>1 DEF Describes, Newer
  <2> QED
    BY <2>2 DEF Full, Complete
<1> QED
  BY <1>1, Invariance, PTL

\* A chart is opened as all of what the server had when it was asked, and a helm chart
\* from the archive that the index named which the server sent (openHelm).
THEOREM WhatIsOpenedWasServed ==
    ASSUME OneAtATime PROVE OpenersSpec => []OpenedIsServed
<1>1. IInv => OpenedIsServed
  <2> SUFFICES ASSUME IInv, NEW p \in Procs, Asked(p, "opened"), proc[p].name # NoName
               PROVE  /\ Complete(proc[p].name, proc[p].meta.generation, proc[p].served)
                      /\ request[p].index # Missing => proc[p].name = ChartOf[request[p].index]
    BY DEF OpenedIsServed
  <2>1. ChainSound(request[p], proc[p]) /\ LoadSound(proc[p], content, server)
    BY DEF IInv
  <2>2. /\ proc[p].step = "done"
        /\ request[p].index # Missing => proc[p].name = ChartOf[request[p].index]
    BY <2>1 DEF ChainSound, Asked
  <2>3. Full(content[proc[p].name][proc[p].meta.generation], proc[p].served)
    BY <2>1, <2>2 DEF LoadSound, Served
  <2> QED
    BY <2>2, <2>3 DEF Full, Complete
<1> QED
  BY <1>1, Invariance, PTL

\* Catalogs are tried in order (openWithCatalogs): whatever fails, one is passed over only
\* for a reason of its own, or because kdo has left metadata behind that it cannot read, or
\* has sent another credential than the one that is meant.
THEOREM CatalogsAreInOrder ==
    ASSUME OneAtATime PROVE OpenersSpec => []CatalogsInOrder
<1>1. IInv => CatalogsInOrder
  <2> SUFFICES ASSUME IInv, NEW p \in Procs,
                      NEW i \in PassedOver(request[p]) \ request[p].excused
               PROVE  \E n \in LoadedFrom(Candidates[request[p].url][i]) : InTheWay(n)
    BY DEF CatalogsInOrder
  <2>1. ChainSound(request[p], proc[p]) /\ Excused(request[p], proc[p], metadata)
    BY DEF IInv
  <2>2. request[p].turn \in Nat
    BY <2>1 DEF ChainSound, Requests
  <2>3. CASE request[p].at = "opened"
    <3>1. PassedOver(request[p]) = 1..(request[p].turn - 1)
      BY <2>3 DEF PassedOver
    <3> QED
      BY <2>1, <2>2, <2>3, <3>1, BehindIs DEF Excused, Stuck, InTheWay
  <2>4. CASE request[p].at = "failed"
    <3>1. PassedOver(request[p]) = DOMAIN Candidates[request[p].url]
      BY <2>4 DEF PassedOver
    <3>2. request[p].turn = Len(Candidates[request[p].url]) /\ request[p].url \in Urls
      BY <2>1, <2>4 DEF ChainSound, IInv, OpenersTypeOK, Request0
    <3>3. DOMAIN Candidates[request[p].url] = 1..request[p].turn
      BY <3>2, CandidatesAssumption
    <3> QED
      BY <2>1, <2>2, <2>4, <3>1, <3>3, BehindIs DEF Excused, Stuck, InTheWay
  <2>5. CASE request[p].at \notin {"opened", "failed"}
    BY <2>5 DEF PassedOver
  <2> QED
    BY <2>3, <2>4, <2>5
<1> QED
  BY <1>1, Invariance, PTL
=============================================================================
