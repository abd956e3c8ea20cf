---------------------------- MODULE PathService ----------------------------
(* The three programs that decide on paths, in a file system that changes    *)
(* under them: the monitor judges the paths of file events, the runner       *)
(* accepts the directories to mount, the deletion service deletes a file of  *)
(* the workspace.  Their processes share nothing but the file system, so one *)
(* behaviour observes one of them.                                           *)
EXTENDS PathPolicy

CONSTANTS
    Volumes,        \* device names
    Files,          \* records with a volume and the components below its root
    KnownFolders,   \* what SHGetKnownFolderPath answers for each folder, if it does
    UserProfile,    \* the value of USERPROFILE, if it is set
    Places,         \* the paths of the host that exist, with the kinds they can have
    LinkTo,         \* where each place that can be a link leads, when it and all behind it are followed
    HostPaths,      \* directories asked for as mounts
    ContainerPaths, \* mount points and working directories asked for
    SystemFolders,  \* the protected names below a drive's root
    Root,           \* workspaceRoot of workspace-delete
    Targets,        \* the paths it is asked to delete
    Nil

\* A path of the Go programs, in which letter case makes no difference.
Fold(path) == [i \in DOMAIN path |-> ToLowerPath(path[i])]

\* A text that begins with a drive, and a directory as filepath.Clean returns it.
IsText(s) == s # <<>> /\ s \in Seq(ToSet(s)) /\ s[1] \notin {Sep, Slash, ".", ".."}

IsCleanPath(path) == path # <<>> /\ path \in Seq(ToSet(path) \ {<<>>, <<".">>, <<"..">>})

\* The names of volumes lie below \ and tell the volumes apart; the folders of the
\* user are on drives.
ASSUME VolumesAssumption ==
    /\ \A v \in Volumes :
         /\ v \in Seq(Chars \ {Slash}) /\ Len(v) > 1 /\ v[1] = Sep /\ v[2] \notin Marks
         /\ ToLowerPath(<<v[2]>>) # ToLowerPath(<<"SystemRoot">>)
    /\ \A v, w \in Volumes :
         StartsWithIgnoreCase(v, w) /\ (Len(v) = Len(w) \/ v[Len(w) + 1] = Sep) => v = w
    /\ \A file \in Files : file.volume \in Volumes /\ file.parts \in Seq({p \in ToSet(file.parts) : IsName(p)})
    /\ KnownFolders \in Seq({f \in ToSet(KnownFolders) : IsOnDrive(f)}) /\ IsOnDrive(UserProfile)

\* The texts the list of protected folders is built from.
FolderTexts ==
    ToSet(KnownFolders) \cup {UserProfile \o <<Sep>> \o name : name \in ToSet(ProfileFolders)}

ASSUME NilAssumption == Nil \notin Seq(Seq(Chars)) /\ \A texts \in SUBSET FolderTexts : texts # Nil

ASSUME PathAssumption ==
    /\ \A p \in DOMAIN Places : Places[p] # {}
    /\ \A p \in DOMAIN LinkTo : IsCleanPath(LinkTo[p]) /\ p \in DOMAIN Places
    /\ \A p \in DOMAIN LinkTo :
         \A n \in 1..Len(LinkTo[p]) : Fold(SubSeq(LinkTo[p], 1, n)) \notin DOMAIN LinkTo
    /\ IsCleanPath(Root) /\ Root \in DOMAIN Places
    /\ \A text \in Targets \cup HostPaths \cup ContainerPaths : text = <<>> \/ IsText(text)
    /\ <<>> \notin Targets

VARIABLES
    program,    \* "monitor", "runner" or "delete": the one that is observed
    device,     \* the volume that has each drive's letter; <<>> if it cannot be queried
    folders,    \* the static list of protected folders, Nil until the first judgement
    sources,    \* the lookups that had succeeded when the list was built
    verdict,    \* the judgement a handler is about to use
    tree,       \* what each place is: "file", "dir", "link" or "none"
    mounts,     \* the accepted configuration
    deletion    \* the state of DeleteFile

vars == <<program, device, folders, sources, verdict, tree, mounts, deletion>>
monitorVars == <<device, folders, sources, verdict>>
hostVars == <<tree, mounts, deletion>>

\* The trees in which every place is of one of its kinds.
Trees ==
    LET mixed == {p \in DOMAIN Places : Cardinality(Places[p]) > 1}
        kinds == {t \in [mixed -> {"file", "dir", "link", "none"}] :
                    \A p \in mixed : t[p] \in Places[p]}
    IN  {[p \in DOMAIN Places |-> IF p \in mixed THEN t[p] ELSE CHOOSE k \in Places[p] : TRUE] : t \in kinds}

Init ==
    /\ program \in {"monitor", "runner", "delete"}
    /\ device \in [ToSet(Drives) -> Volumes \cup {<<>>}]
    /\ \A d, e \in ToSet(Drives) : device[d] = device[e] /\ device[d] # <<>> => d = e
    /\ folders = Nil /\ sources = Nil /\ verdict = Nil
    /\ tree \in Trees
    /\ mounts = Nil /\ deletion = [pc |-> "idle"]
    /\ program # "monitor" => \A d \in ToSet(Drives) : device[d] = <<>>
    /\ program = "monitor" => tree = [p \in DOMAIN Places |-> CHOOSE k \in Places[p] : TRUE]

------------------------------------------------------------------------------
(* The monitor.                                                            *)

\* A letter is given to another volume, or can no longer be queried.
Remount(d, v) ==
    /\ program = "monitor" /\ verdict = Nil
    /\ v = <<>> \/ \A e \in ToSet(Drives) : device[e] # v
    /\ device' = [device EXCEPT ![d] = v]
    /\ UNCHANGED <<program, folders, sources, verdict, hostVars>>

\* The letters by which a file can be reached: at most one.
LettersOf(file) == {d \in ToSet(Drives) : device[d] = file.volume}

ToUpper(s) == [i \in DOMAIN s |->
    IF \E c \in DOMAIN LowerOf : LowerOf[c] = s[i] THEN CHOOSE c \in DOMAIN LowerOf : LowerOf[c] = s[i]
    ELSE s[i]]

Slashes(s) == [i \in DOMAIN s |-> IF s[i] = Sep THEN Slash ELSE s[i]]

\* The texts by which events and callers name a file: by its device, and when its
\* volume has a letter by that, with prefixes, in quotes, and on detours.
Spellings(file) ==
    LET below == Tail(Written("", file.parts))
        dos == {Written(d, file.parts) : d \in LettersOf(file)}
        detour == {<<s[1], Sep, "x", Sep, "..", Sep, ".", Sep, Sep>> \o Tail(s) : s \in dos}
        system == {<<Sep, "SystemRoot">> \o After(s, Len(WindowsDir)) :
                      s \in {t \in dos : StartsWithIgnoreCase(t, Append(WindowsDir, Sep))}}
        plain == dos \cup detour \cup {Append(s, Sep) : s \in dos}
        prefixed == {<<Sep, "?", "?", Sep>> \o s : s \in dos} \cup {<<Sep, Sep, "?", Sep>> \o s : s \in dos}
        said == plain \cup prefixed \cup system \cup {file.volume \o below}
    IN  said \cup {Slashes(s) : s \in said} \cup {ToUpper(s) : s \in said}
             \cup {<<Quote>> \o s \o <<Quote>> : s \in dos}

\* The list that the first judgement builds, with the lookups it is built from.
FirstLists ==
    {[folders |-> BuildProtectedPersonalFolders(device, known, profile),
      sources |-> (ToSet(known) \cup (IF profile = <<>> THEN {} ELSE
                    {profile \o <<Sep>> \o name : name \in ToSet(ProfileFolders)})) \ {<<>>}] :
       known \in {k \in [DOMAIN KnownFolders -> ToSet(KnownFolders) \cup {<<>>}] :
                     \A n \in DOMAIN k : k[n] \in {KnownFolders[n], <<>>}},
       profile \in {UserProfile, <<>>}}

\* IsPathInProtectedPersonalFolders keeps its list in a static, built when it is
\* first asked; files of the working directory are never asked about.
Judge(file, text) ==
    /\ program = "monitor" /\ verdict = Nil
    /\ \E list \in IF folders # Nil
                     \/ IsSameOrInsideFolder(device, NormalizeFilePath(device, text), WorkingDir)
                   THEN {[folders |-> folders, sources |-> sources]}
                   ELSE FirstLists :
         /\ folders' = list.folders /\ sources' = list.sources
         /\ verdict' = [file |-> file, text |-> text, protected |->
                          IsProtectedOutsideWorkingDir(device, list.folders, text)]
    /\ UNCHANGED <<program, device, hostVars>>

\* The handler goes on with the answer, to the next event.
Handled ==
    /\ verdict # Nil
    /\ verdict' = Nil
    /\ UNCHANGED <<program, device, folders, sources, hostVars>>

------------------------------------------------------------------------------
(* Paths of the Go programs: the drive and the components below it.        *)

\* filepath.Abs and filepath.Clean of a text that begins with a drive.
Clean(text) == << <<text[1]>> >> \o Walk(Components(Tail(text)))

SamePath(a, b) == Fold(a) = Fold(b)

\* filepath.Rel; there is no way from one drive to another.
Rel(root, candidate) ==
    LET shared == {n \in 0..Len(root) : n <= Len(candidate) /\
                      SamePath(SubSeq(root, 1, n), SubSeq(candidate, 1, n))}
        n == CHOOSE m \in shared : \A k \in shared : k <= m
    IN  IF n = 0 THEN << <<"..">> >>
        ELSE [i \in 1..(Len(root) - n) |-> <<"..">>] \o After(candidate, n)

ContainsPath(root, candidate) ==
    SamePath(root, candidate) \/ ~IsPrefix(<< <<"..">> >>, Rel(root, candidate))

\* Mutant: only the directories above the first are looked for.
OverlapsAbove(first, second) == ContainsPath(second, first)

PathsOverlap(first, second) == ContainsPath(first, second) \/ ContainsPath(second, first)

\* Where one step leads: to the place itself, or to where the link there leads.
Followed(links, path) == IF Fold(path) \in links THEN LinkTo[Fold(path)] ELSE path

\* Where a path leads when these links are followed.
Resolved(links, path) ==
    LET at[n \in 0..Len(path)] ==
          IF n = 0 THEN <<>> ELSE Followed(links, Append(at[n - 1], path[n]))
    IN  at[Len(path)]

Links == {place \in DOMAIN LinkTo : tree[place] = "link"}

Real(path) == Resolved(Links, path)

\* The entry a path names, its own last link not followed, and what it is.
Entry(path) == Fold(Append(Real(Front(path)), Last(path)))

KindAt(place) ==
    IF place \in DOMAIN tree /\ \A n \in 1..(Len(place) - 1) : tree[SubSeq(place, 1, n)] = "dir"
    THEN tree[place] ELSE "none"

Lstat(path) == KindAt(Entry(path))
Stat(path)  == KindAt(Fold(Real(path)))

------------------------------------------------------------------------------
(* The runner.                                                             *)

\* EvalSymlinks may fail on a path that exists; the path is then taken as it is.
ResolvePath(text, resolves) == IF resolves THEN Real(Clean(text)) ELSE Clean(text)

\* A directory that is neither a drive nor one of the folders named here.
IsMountable(path, profile) ==
    /\ Stat(path) = "dir"
    /\ Len(path) > 1
    /\ ~(Len(path) = 2 /\ ToLowerPath(path[2]) \in SystemFolders)
    /\ profile # <<>> => ~SamePath(path, Clean(profile))

ValidateContainerPath(text) == text # <<>> /\ Len(Clean(text)) > 1

DefaultConfig ==
    [workspace |-> <<"C:", Sep, "CodexWorkspace">>, workspaceContainer |-> <<"C:", Sep, "workspace">>,
     home |-> <<"C:", Sep, "CodexHome">>, homeContainer |-> <<"C:", Sep, "codex-home">>,
     workdir |-> <<"C:", Sep, "workspace">>]

\* The flags of parseConfig that name paths.
Options ==
    LET hosts == {"workspace", "home"}
        containers == {"workspaceContainer", "homeContainer", "workdir"}
    IN  (UNION {[fs -> HostPaths \cup {<<>>}] : fs \in SUBSET hosts})
          \cup (UNION {[fs -> ContainerPaths] : fs \in SUBSET containers})

ParseConfig(options) ==
    [f \in DOMAIN DefaultConfig |-> IF f \in DOMAIN options THEN options[f] ELSE DefaultConfig[f]]

\* NormalizeAndValidate as far as it is about paths; what it asks of the other
\* options can only refuse.
NormalizeAndValidate(options) ==
    LET cfg == ParseConfig(options) IN
    /\ program = "runner" /\ mounts = Nil
    /\ ValidateContainerPath(cfg.workspaceContainer) /\ ValidateContainerPath(cfg.workdir)
    /\ ContainsPath(Clean(cfg.workspaceContainer), Clean(cfg.workdir))
    /\ cfg.home # <<>> =>
         /\ ValidateContainerPath(cfg.homeContainer)
         /\ ~PathsOverlap(Clean(cfg.workspaceContainer), Clean(cfg.homeContainer))
    /\ \E profile \in {UserProfile, <<>>}, follows, followsHome \in BOOLEAN :
         LET workspace == ResolvePath(cfg.workspace, follows)
             home == ResolvePath(cfg.home, followsHome)
         IN  /\ cfg.workspace # <<>> /\ IsMountable(workspace, profile)
             /\ cfg.home # <<>> => IsMountable(home, profile) /\ ~PathsOverlap(workspace, home)
             /\ mounts' = [cfg |-> cfg, workspace |-> workspace,
                           home |-> IF cfg.home = <<>> THEN <<>> ELSE home,
                           profile |-> profile, followed |-> follows /\ followsHome]
    /\ UNCHANGED <<program, monitorVars, tree, deletion>>
------------------------------------------------------------------------------
(* The deletion service.                                                   *)

\* A place becomes another kind of thing while DeleteFile is at work.
Change(place, kind) ==
    /\ program = "delete" /\ deletion.pc \in {"parents", "target", "remove"}
    /\ kind \in Places[place] /\ kind # tree[place]
    /\ tree' = [tree EXCEPT ![place] = kind]
    /\ deletion' = [deletion EXCEPT !.disturbed = TRUE]
    /\ UNCHANGED <<program, monitorVars, mounts>>

\* The targets DeleteFile does not refuse at once: paths strictly below the root.
Deletable(target) == ~SamePath(Root, target) /\ ContainsPath(Root, target)

\* Mutant: the directory of the file itself is not looked at.
AllButLastParent(target) == Len(target) - Len(Root) - 2

\* How many parents of the target are asked for links: all but the root.
ParentParts(target) == Len(target) - Len(Root) - 1

DeleteFile(text) ==
    /\ program = "delete" /\ deletion.pc = "idle" /\ Deletable(Clean(text))
    /\ deletion' = [pc |-> "parents", target |-> Clean(text), seen |-> 0, disturbed |-> FALSE]
    /\ UNCHANGED <<program, monitorVars, tree, mounts>>

\* One round of rejectSymlinkParents.
RejectSymlinkParents ==
    /\ deletion.pc = "parents"
    /\ LET current == SubSeq(deletion.target, 1, Len(Root) + deletion.seen + 1) IN
       deletion' = IF deletion.seen >= ParentParts(deletion.target) THEN [deletion EXCEPT !.pc = "target"]
                   ELSE IF Lstat(current) \in {"none", "link"} THEN [deletion EXCEPT !.pc = "refused"]
                   ELSE [deletion EXCEPT !.seen = @ + 1]
    /\ UNCHANGED <<program, monitorVars, tree, mounts>>

InspectTarget ==
    /\ deletion.pc = "target"
    /\ deletion' = [deletion EXCEPT !.pc = IF Lstat(deletion.target) = "file" THEN "remove" ELSE "refused"]
    /\ UNCHANGED <<program, monitorVars, tree, mounts>>

\* os.Remove takes away a file, a link itself, or an empty directory.
RemoveFile ==
    /\ deletion.pc = "remove"
    /\ LET place == Entry(deletion.target)
           kind == Lstat(deletion.target)
           empty == \A p \in DOMAIN tree : IsStrictPrefix(place, p) => KindAt(p) = "none"
       IN  IF kind \in {"file", "link"} \/ (kind = "dir" /\ empty)
           THEN /\ tree' = [tree EXCEPT ![place] = "none"]
                /\ deletion' = [pc |-> "removed", target |-> deletion.target, place |-> place,
                                kind |-> kind, disturbed |-> deletion.disturbed]
           ELSE deletion' = [deletion EXCEPT !.pc = "failed"] /\ UNCHANGED tree
    /\ UNCHANGED <<program, monitorVars, mounts>>

------------------------------------------------------------------------------

Next ==
    \/ \E d \in ToSet(Drives), v \in Volumes \cup {<<>>} : Remount(d, v)
    \/ \E file \in Files : \E text \in Spellings(file) : Judge(file, text)
    \/ Handled
    \/ \E options \in Options : NormalizeAndValidate(options)
    \/ \E place \in DOMAIN Places : \E kind \in Places[place] : Change(place, kind)
    \/ \E text \in Targets : DeleteFile(text)
    \/ RejectSymlinkParents
    \/ InspectTarget
    \/ RemoveFile

Spec == Init /\ [][Next]_vars
------------------------------------------------------------------------------
(* Properties.                                                             *)

\* Lists hold each folder once and without a separator at its end; a deletion
\* looks at no more parents than there are.
TypeOK ==
    /\ program \in {"monitor", "runner", "delete"}
    /\ device \in [ToSet(Drives) -> Volumes \cup {<<>>}]
    /\ folders # Nil =>
         /\ \A i, j \in DOMAIN folders : ToLowerPath(folders[i]) = ToLowerPath(folders[j]) => i = j
         /\ \A f \in ToSet(folders) : Len(f) > 2 => Last(f) # Sep
    /\ (folders = Nil) = (sources = Nil)
    /\ \A p \in DOMAIN tree : tree[p] \in Places[p] \cup {"none"}
    /\ deletion.pc \in {"idle", "parents", "target", "remove", "refused", "failed", "removed"}
    /\ deletion.pc = "parents" => deletion.seen \in 0..ParentParts(deletion.target)

\* The place of a file below a letter, and the place a text names.
PlaceOf(file, d) == Fold(<< <<d>> >> \o file.parts)
PlaceNamed(text) == Fold(Clean(text))

\* However a file is named, by its device, behind a prefix, in other letters or
\* on a detour, it is the same file that is judged, and it is judged by where it
\* lies: in one of the folders the system or the profile named when the list was
\* built and not in the working directory ("mora da bude dir\nesto, ne samo
\* dirXYZ", FilterFiles.cpp:125).  A volume that has changed its letter since is
\* judged by its new one.  Files of a volume without a letter are not protected,
\* and the root of a drive has nothing inside it (FilterFiles.cpp:134).
VerdictIsTrue ==
    verdict # Nil =>
        LET letters == LettersOf(verdict.file)
            normalized == NormalizeFilePath(device, verdict.text)
            inside(text, place) == /\ IsPrefix(PlaceNamed(text), place)
                                   /\ Len(PlaceNamed(text)) = 1 => place = PlaceNamed(text)
        IN  /\ \A d \in letters : LET place == PlaceOf(verdict.file, d) IN
                 /\ normalized[1] \in ToSet(Drives) \cup ToSet(ToLowerPath(Drives))
                 /\ PlaceNamed(normalized) = place
                 /\ verdict.protected <=> /\ ~inside(WorkingDir, place)
                                          /\ \E text \in sources : inside(text, place)
            /\ letters = {} => ~verdict.protected

\* The directories a configuration mounts are, where they really lie, two
\* directories apart, none of them a drive, a system folder or the profile; their
\* mount points are apart in the container, and the working directory is in the
\* workspace (config.go:122-127).  It takes links that can be followed.
AcceptedMountsAreApart ==
    mounts # Nil =>
        LET cfg == mounts.cfg
            asked == {cfg.workspace} \cup (IF cfg.home = <<>> THEN {} ELSE {cfg.home})
            lies(text) == Fold(Real(Clean(text)))
            at(text) == Fold(Clean(text))
            apart(p, q) == ~IsPrefix(p, q) /\ ~IsPrefix(q, p)
        IN  /\ mounts.followed =>
                 /\ \A text \in asked : LET p == lies(text) IN
                      /\ Len(p) > 1 /\ KindAt(p) = "dir"
                      /\ ~(Len(p) = 2 /\ p[2] \in SystemFolders)
                      /\ mounts.profile # <<>> => p # at(mounts.profile)
                 /\ cfg.home # <<>> => apart(lies(cfg.workspace), lies(cfg.home))
            /\ IsPrefix(at(cfg.workspaceContainer), at(cfg.workdir))
            /\ Len(at(cfg.workspaceContainer)) > 1
            /\ cfg.home # <<>> => apart(at(cfg.workspaceContainer), at(cfg.homeContainer))

\* Whatever is deleted was asked for by a path below the workspace.  It is a regular
\* file that lies in the workspace, reached through no link below its root
\* (delete.go:42: "refusing to traverse symlinked workspace path"), if nobody changes
\* the tree between the checks and the deletion: the checks hold for the tree they saw.
DeletesOnlyWhatItChecked ==
    deletion.pc = "removed" =>
        /\ IsStrictPrefix(Fold(Root), Fold(deletion.target))
        /\ ~deletion.disturbed =>
             /\ deletion.kind = "file"
             /\ deletion.place = Fold(Real(Root) \o After(deletion.target, Len(Root)))

\* "The helper only deletes regular files below C:\\WorkingDirectory."
\* (hcs-workspace.rules:4): whatever happens to the tree meanwhile, what is deleted lies
\* in the workspace.
DeletesOnlyBelowWorkspace ==
    deletion.pc = "removed" => IsStrictPrefix(Fold(Real(Root)), deletion.place)
=============================================================================
