------------------------------ MODULE DirCache ------------------------------
(***************************************************************************)
(* The cache of downloaded charts (pkg/kdo/dir_cache.go, with the loaders  *)
(* of pkg/kdo/repo.go).  An entry of it is a file with the tag and the     *)
(* generation of what is cached, and a directory for each generation.      *)
(* The cache lies in the home directory; every kdo a user runs shares it.  *)
(* Module Openers has the chain of openers around it, and the steps of     *)
(* both.                                                                   *)
(***************************************************************************)
EXTENDS Naturals, FiniteSets, Sequences

CONSTANTS Procs,
          Names,       \* URLs, each with an entry of its own
          Local,       \* those that are archives on the local disk
          Files,
          Versions,
          Offers,      \* Names -> what the server has for it, over time
          FilesOf,     \* Versions -> SUBSET Files
          TagOf,       \* Versions -> the tag it is sent with, or NoTag
          ModTime,     \* Versions -> when it was written, for those of a local archive
          Missing,     \* the server has nothing of that name
          Credentials, \* those configured: the URLs that begin with its own, and its length
          Anonymous,   \* no credential is sent
          Accepted,    \* Names -> which of them the server lets in
          NoName, NoTag, NoFile, NoDir,
          Broken,      \* a metadata file that was created and not yet written
          MaxOpens,    \* bound: calls of an opener
          MaxFaults,   \* bound: loads and writes that fail, processes that die
          MaxTicks     \* bound: seconds that pass

ASSUME ShapeAssumption ==
    /\ Offers \in [Names -> SUBSET (Versions \cup {Missing})]
    /\ FilesOf \in [Versions -> SUBSET Files]
    /\ DOMAIN TagOf = Versions
    /\ \A v, w \in Versions : TagOf[v] = TagOf[w] => v = w \/ TagOf[v] = NoTag
    /\ \A v \in Versions : TagOf[v] \notin Nat    \* no server sends the clock's
    /\ NoName \notin Names /\ Missing \notin Versions
    /\ Local \subseteq Names /\ ModTime \in [Versions -> Nat]
    /\ \A n \in Local : Offers[n] \subseteq {v \in Versions : TagOf[v] # NoTag}
    /\ Credentials \in Seq([urls: SUBSET Names, length: Nat \ {0}])
    /\ Anonymous \notin DOMAIN Credentials
    /\ Accepted \in [Names -> SUBSET ((DOMAIN Credentials) \cup {Anonymous})]

ASSUME BoundsAssumption == MaxOpens \in Nat /\ MaxFaults \in Nat /\ MaxTicks \in Nat

VARIABLES metadata,  \* Names -> [tag, generation], or Broken
          content,   \* name and generation -> its files, each of some version; or NoDir
          proc,      \* Procs -> the open that runs, or ran last
          server,    \* Names -> the version the server has, or Missing
          second,    \* what time.Now().Unix() returns
          opens, faults

vars == <<metadata, content, proc, server, second, opens, faults>>

Generations == 0..MaxOpens
Tags == {TagOf[v] : v \in Versions} \cup (0..MaxTicks) \cup {NoTag}

ASSUME NothingAssumption == /\ Broken \notin [tag: Tags, generation: Generations]
                            /\ NoDir \notin [Files -> Versions \cup {NoFile}]

\* meta: the metadata as read, the generation counted up by targetDir; tag: what
\* the loader returned; todo: files it still has to write; old: the directory that
\* was current; served: the version the server had when it was asked.
Idle0 == [step |-> "idle", name |-> NoName, meta |-> [tag |-> NoTag, generation |-> 0], tag |-> NoTag,
          todo |-> {}, old |-> 0, served |-> Missing, failed |-> FALSE]

Steps == {"idle", "read", "load", "open", "extract", "loaded", "create", "encode", "remove",
          "done", "error"}

TypeOK ==
    /\ metadata \in [Names -> [tag: Tags, generation: Generations] \cup {Broken}]
    /\ content \in [Names -> [Generations -> [Files -> Versions \cup {NoFile}] \cup {NoDir}]]
    /\ \A p \in Procs :
          /\ proc[p] \in [step: Steps, name: Names \cup {NoName}, meta: [tag: Tags, generation: Generations],
                          tag: Tags, todo: SUBSET Files, old: Generations,
                          served: Versions \cup {Missing}, failed: BOOLEAN]
          /\ proc[p].step = "remove" => proc[p].old # proc[p].meta.generation
    /\ \A n \in Names : server[n] \in Offers[n]
    /\ second \in 0..MaxTicks
    /\ opens \in 0..MaxOpens
    /\ faults \in 0..MaxFaults

\* There is no metadata file yet.
Init == /\ metadata = [n \in Names |-> [tag |-> NoTag, generation |-> 0]]
        /\ content = [n \in Names |-> [g \in Generations |-> NoDir]]
        /\ server \in {s \in [Names -> Versions \cup {Missing}] : \A n \in Names : s[n] \in Offers[n]}
        /\ proc = [p \in Procs |-> Idle0]
        /\ second = 0
        /\ opens = 0
        /\ faults = 0

At(p, step) == proc[p].step = step
Goto(p, record) == proc' = [proc EXCEPT ![p] = record]

-----------------------------------------------------------------------------
(* Around the cache *)

\* A new version is uploaded, or what was there removed; a local archive is written
\* at a later time.
Upload == /\ \E n \in Names : \E v \in Offers[n] \ {server[n]} :
                /\ n \in Local => ModTime[v] > ModTime[server[n]]
                /\ server' = [server EXCEPT ![n] = v]
          /\ UNCHANGED <<metadata, content, proc, second, opens, faults>>

Tick == /\ second < MaxTicks
        /\ second' = second + 1
        /\ UNCHANGED <<metadata, content, proc, server, opens, faults>>

Dies(p) ==
    /\ proc[p].step \notin {"idle", "done", "error"}
    /\ faults < MaxFaults
    /\ faults' = faults + 1
    /\ Goto(p, Idle0)
    /\ UNCHANGED <<metadata, content, server, second, opens>>

-----------------------------------------------------------------------------
(* WrapDir *)

Open(p, name) ==
    /\ proc[p].step \in {"idle", "done", "error"}
    /\ opens < MaxOpens
    /\ opens' = opens + 1
    /\ Goto(p, [Idle0 EXCEPT !.step = "read", !.name = name])
    /\ UNCHANGED <<metadata, content, server, second, faults>>

\* A file that is there and empty does not parse: no later open gets past it.
ReadMetadata(p) ==
    /\ At(p, "read")
    /\ LET meta == metadata[proc[p].name] IN
       IF meta = Broken
       THEN Goto(p, [proc[p] EXCEPT !.step = "error"])
       ELSE Goto(p, [proc[p] EXCEPT !.step = "load", !.meta = meta, !.old = meta.generation])
    /\ UNCHANGED <<metadata, content, server, second, opens, faults>>

\* (variant: the current generation is written over)
TargetDirInPlace(meta) == meta

\* targetDir: the next generation, for this open alone
TargetDir(meta) == [meta EXCEPT !.generation = @ + 1]

Emptied == [f \in Files |-> NoFile]

Matching(n) == {i \in DOMAIN Credentials : n \in Credentials[i].urls}

\* The credential with the longest prefix is meant, the first one of several.
Meant(n) ==
    IF Matching(n) = {} THEN Anonymous
    ELSE CHOOSE i \in Matching(n) : \A j \in Matching(n) :
            \/ Credentials[i].length > Credentials[j].length
            \/ Credentials[i].length = Credentials[j].length /\ i <= j

\* bestMatch points to the variable of the loop, which is the last credential in the end.
Sent(n) == IF Matching(n) = {} THEN Anonymous ELSE Len(Credentials)

Answer(p) == server[proc[p].name]

\* The loader asks the server, with the old tag: 304, or 200 and the content, which
\* goes to the target directory.  A directory that exists is not emptied.
Load(p) ==
    /\ At(p, "load") /\ proc[p].name \notin Local
    /\ Answer(p) # Missing /\ Sent(proc[p].name) \in Accepted[proc[p].name]
    /\ IF TagOf[Answer(p)] # NoTag /\ TagOf[Answer(p)] = proc[p].meta.tag
       THEN /\ Goto(p, [proc[p] EXCEPT !.step = "loaded", !.served = Answer(p),
                           !.tag = proc[p].meta.tag])
            /\ UNCHANGED content
       ELSE LET target == TargetDir(proc[p].meta) IN
            /\ content' = [content EXCEPT ![proc[p].name][target.generation] =
                              IF @ = NoDir THEN Emptied ELSE @]
            /\ Goto(p, [proc[p] EXCEPT !.step = "extract", !.meta = target,
                           !.served = Answer(p), !.todo = FilesOf[Answer(p)]])
    /\ UNCHANGED <<metadata, server, second, opens, faults>>

\* loadArchive: the modification time is the tag ...
Stat(p) ==
    /\ At(p, "load") /\ proc[p].name \in Local
    /\ IF TagOf[Answer(p)] = proc[p].meta.tag
       THEN /\ Goto(p, [proc[p] EXCEPT !.step = "loaded", !.served = Answer(p),
                           !.tag = proc[p].meta.tag])
            /\ UNCHANGED content
       ELSE LET target == TargetDir(proc[p].meta) IN
            /\ content' = [content EXCEPT ![proc[p].name][target.generation] =
                              IF @ = NoDir THEN Emptied ELSE @]
            /\ Goto(p, [proc[p] EXCEPT !.step = "open", !.meta = target, !.tag = TagOf[Answer(p)]])
    /\ UNCHANGED <<metadata, server, second, opens, faults>>

\* ... and what is there by the time it is opened, the content.
OpenArchive(p) ==
    /\ At(p, "open")
    /\ Goto(p, [proc[p] EXCEPT !.step = "extract", !.served = Answer(p), !.todo = FilesOf[Answer(p)]])
    /\ UNCHANGED <<metadata, content, server, second, opens, faults>>

\* One file of the archive; a directory that went away is made again (MkdirAll).
Extract(p) ==
    /\ At(p, "extract")
    /\ \E f \in proc[p].todo :
          /\ content' = [content EXCEPT ![proc[p].name][proc[p].meta.generation] =
                            [(IF @ = NoDir THEN Emptied ELSE @) EXCEPT ![f] = proc[p].served]]
          /\ Goto(p, [proc[p] EXCEPT !.todo = @ \ {f}])
    /\ UNCHANGED <<metadata, server, second, opens, faults>>

\* The end of the archive; a server that sends no tag gets one from the clock.
Extracted(p) ==
    /\ At(p, "extract") /\ proc[p].todo = {}
    /\ LET sent == TagOf[proc[p].served] IN
       Goto(p, [proc[p] EXCEPT !.step = "loaded",
                   !.tag = IF proc[p].name \in Local THEN @ ELSE IF sent = NoTag THEN second ELSE sent])
    /\ UNCHANGED <<metadata, content, server, second, opens, faults>>

\* The server does not let kdo in; that is no failing of the server's if it accepts
\* the credential that was meant.
Refused(p) ==
    /\ At(p, "load") /\ proc[p].name \notin Local
    /\ Sent(proc[p].name) \notin Accepted[proc[p].name]
    /\ Goto(p, [proc[p] EXCEPT !.step = "error",
                   !.failed = Meant(proc[p].name) \notin Accepted[proc[p].name]])
    /\ UNCHANGED <<metadata, content, server, second, opens, faults>>

\* Any other status but 200 and 304, or the connection or the archive breaks off.
LoadFails(p) ==
    /\ \/ At(p, "load") /\ Answer(p) = Missing /\ UNCHANGED faults
       \/ /\ At(p, "load") \/ At(p, "open") \/ At(p, "extract")
          /\ faults < MaxFaults
          /\ faults' = faults + 1
    /\ Goto(p, [proc[p] EXCEPT !.step = "error", !.failed = TRUE])
    /\ UNCHANGED <<metadata, content, server, second, opens>>

\* (variant: an unchanged tag stands for the generation that was read)
CompareTagOld(p) ==
    /\ At(p, "loaded")
    /\ Goto(p, IF proc[p].tag = proc[p].meta.tag
               THEN [proc[p] EXCEPT !.step = "done", !.meta.generation = proc[p].old]
               ELSE [proc[p] EXCEPT !.step = "create"])
    /\ UNCHANGED <<metadata, content, server, second, opens, faults>>

\* An unchanged tag: done, with the generation as it is counted by now.
CompareTag(p) ==
    /\ At(p, "loaded")
    /\ Goto(p, [proc[p] EXCEPT !.step = IF proc[p].tag = proc[p].meta.tag
                                        THEN "done" ELSE "create"])
    /\ UNCHANGED <<metadata, content, server, second, opens, faults>>

\* writeYamlFile: os.Create ...
CreateMetadata(p) ==
    /\ At(p, "create")
    /\ metadata' = [metadata EXCEPT ![proc[p].name] = Broken]
    /\ Goto(p, [proc[p] EXCEPT !.step = "encode"])
    /\ UNCHANGED <<content, server, second, opens, faults>>

\* (variant: the generation is not counted up in the file)
EncodeTagOnly(p) ==
    /\ At(p, "encode")
    /\ metadata' = [metadata EXCEPT ![proc[p].name] =
                       [tag |-> proc[p].tag, generation |-> proc[p].old]]
    /\ Goto(p, [proc[p] EXCEPT !.step = "remove"])
    /\ UNCHANGED <<content, server, second, opens, faults>>

\* ... and the encoder
EncodeMetadata(p) ==
    /\ At(p, "encode")
    /\ metadata' = [metadata EXCEPT ![proc[p].name] =
                       [tag |-> proc[p].tag, generation |-> proc[p].meta.generation]]
    /\ Goto(p, [proc[p] EXCEPT !.step = "remove"])
    /\ UNCHANGED <<content, server, second, opens, faults>>

\* The file cannot be created, or not be written to.
MetadataFails(p) ==
    /\ At(p, "create") \/ At(p, "encode")
    /\ faults < MaxFaults
    /\ faults' = faults + 1
    /\ Goto(p, [proc[p] EXCEPT !.step = "error", !.failed = TRUE])
    /\ UNCHANGED <<metadata, content, server, second, opens>>

RemoveOld(p) ==
    /\ At(p, "remove")
    /\ content' = [content EXCEPT ![proc[p].name][proc[p].old] = NoDir]
    /\ Goto(p, [proc[p] EXCEPT !.step = "done"])
    /\ UNCHANGED <<metadata, server, second, opens, faults>>

-----------------------------------------------------------------------------

\* An open once it has begun
Work(p) == \/ ReadMetadata(p) \/ Load(p) \/ Stat(p) \/ OpenArchive(p) \/ Extract(p) \/ Extracted(p)
           \/ Refused(p) \/ LoadFails(p) \/ CompareTag(p) \/ CreateMetadata(p) \/ EncodeMetadata(p)
           \/ MetadataFails(p) \/ RemoveOld(p)

-----------------------------------------------------------------------------
(* Properties *)

\* A directory has all the files of a version.
Complete(n, g, v) == content[n][g] # NoDir /\ \A f \in FilesOf[v] : content[n][g][f] = v

\* What the metadata calls a version is that version in full, wherever loads have
\* failed or processes have died: the next 304 makes an open return it unseen.  (For a
\* local archive the tag may be older than the content; it never comes back.)
MetadataHonest ==
    \A n \in Names \ Local : metadata[n] # Broken => \A v \in Versions :
        TagOf[v] # NoTag /\ metadata[n].tag = TagOf[v] => Complete(n, metadata[n].generation, v)
=============================================================================
