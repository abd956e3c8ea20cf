----------------------------- MODULE PathPolicy -----------------------------
(* Which path a file event is about, and whether it is protected:            *)
(* NormalizePath, FilterFiles and IsProtectedOutsideWorkingDir.  A text is a *)
(* sequence of characters; letters that no test of the code takes apart make *)
(* one character, so that "docs" and "docs2" are <<"docs">> and <<"docs",    *)
(* "2">>, and a drive "C:" is one character.                                 *)
EXTENDS Integers, SequencesExt

CONSTANTS
    Drives,         \* the drives in the order GetLogicalDriveStrings lists them
    LowerOf,        \* the lower case of the characters that have one
    WindowsDir,     \* the text GetWindowsDirectory returns
    WorkingDir,     \* workingDir of HandlerCommon
    ProfileFolders  \* the folders protected below USERPROFILE, in order

Sep   == "\\"
Slash == "/"
Quote == "\""

\* The characters the code looks for, and the components that are no names.
Marks == {Sep, Slash, Quote, "?", ".", ".."}

\* All characters, those that are written below among them.
Chars == STRING \cup Marks \cup {"UNC", "SystemRoot", "x", ""}

IsName(part) == part \in Seq(Chars \ {Sep, Slash}) \ {<<>>, <<".">>, <<"..">>}

\* A text that begins with a drive.
IsOnDrive(s) == s \in Seq(Chars) /\ Len(s) > 1 /\ s[1] \in ToSet(Drives) /\ s[2] \in {Sep, Slash}

ToLowerPath(s) == [i \in DOMAIN s |-> IF s[i] \in DOMAIN LowerOf THEN LowerOf[s[i]] ELSE s[i]]

StartsWithIgnoreCase(value, prefix) ==
    IsPrefix(ToLowerPath(prefix), ToLowerPath(value))

\* Marks are no letters, the lower case of a letter has none itself, and the
\* letters of the drives are capitals.
ASSUME LettersAssumption ==
    /\ DOMAIN LowerOf \subseteq Chars \ Marks
    /\ \A c \in DOMAIN LowerOf : LowerOf[c] \in (Chars \ Marks) \ (DOMAIN LowerOf \cup ToSet(Drives))
    /\ Drives \in Seq(Chars \ Marks)
    /\ \A d \in ToSet(Drives) : ToLowerPath(<<d>>) # ToLowerPath(<<"UNC">>)

ASSUME FoldersAssumption ==
    /\ IsOnDrive(WindowsDir) /\ IsOnDrive(WorkingDir)
    /\ ProfileFolders \in Seq({name \in ToSet(ProfileFolders) : IsName(name)})

\* The text after its first n characters.
After(s, n) == SubSeq(s, n + 1, Len(s))

RemovePrefix(s, prefix) == IF StartsWithIgnoreCase(s, prefix) THEN After(s, Len(prefix)) ELSE s

\* Mutant: any text that goes on after the prefix is taken for a path below it.
NoBoundary(path, n) == TRUE

IsBoundaryAfterPrefix(path, n) == Len(path) = n \/ path[n + 1] \in {Sep, Slash}

\* What stands before, between and behind the separators of a text.
Components(s) ==
    LET split[n \in 0..Len(s)] ==
          IF n = 0 THEN << <<>> >>
          ELSE IF s[n] \in {Sep, Slash} THEN Append(split[n - 1], <<>>)
          ELSE Append(Front(split[n - 1]), Append(Last(split[n - 1]), s[n]))
    IN  split[Len(s)]

\* The components a path really goes through.
Walk(parts) ==
    LET walked[n \in 0..Len(parts)] ==
          IF n = 0 THEN <<>>
          ELSE CASE parts[n] \in {<<>>, <<".">>} -> walked[n - 1]
                 [] parts[n] = <<"..">> -> IF walked[n - 1] = <<>> THEN <<>> ELSE Front(walked[n - 1])
                 [] OTHER -> Append(walked[n - 1], parts[n])
    IN  walked[Len(parts)]

\* Components with a separator before each.
Below(parts) ==
    LET below[n \in 0..Len(parts)] == IF n = 0 THEN <<>> ELSE below[n - 1] \o <<Sep>> \o parts[n]
    IN  below[Len(parts)]

\* A text from a drive and components.
Written(drive, parts) == <<drive>> \o (IF parts = <<>> THEN <<Sep>> ELSE Below(parts))

\* GetFullPathName of a text that begins with a drive.  A trailing separator stays.
GetFullPathSafe(path) ==
    LET full == Written(path[1], Walk(Components(Tail(path))))
    IN  IF Last(path) = Sep /\ Last(full) # Sep THEN Append(full, Sep) ELSE full

\* device gives the answer of QueryDosDevice for each drive, <<>> if it fails.
DevicePathToDosPath(device, path) ==
    LET n == SelectInSeq(Drives, LAMBDA d :
                 /\ device[d] # <<>> /\ StartsWithIgnoreCase(path, device[d])
                 /\ IsBoundaryAfterPrefix(path, Len(device[d])))
        rest == After(path, Len(device[Drives[n]]))
    IN  IF n = 0 THEN path
        ELSE IF rest # <<>> THEN <<Drives[n]>> \o rest
        ELSE <<Drives[n], Sep>>

Unquoted(s) ==
    IF Len(s) >= 2 /\ Head(s) = Quote /\ Last(s) = Quote THEN SubSeq(s, 2, Len(s) - 1) ELSE s

\* What stands before a path that the object manager resolves.
WithoutNamespace(s) ==
    LET bare == RemovePrefix(RemovePrefix(s, <<Sep, "?", "?", Sep>>), <<Sep, Sep, "?", Sep>>)
    IN  IF StartsWithIgnoreCase(bare, <<"UNC", Sep>>) THEN <<Sep, Sep>> \o After(bare, 2) ELSE bare

WithWindowsDir(s) ==
    IF StartsWithIgnoreCase(s, <<Sep, "SystemRoot", Sep>>) THEN WindowsDir \o After(s, 2) ELSE s

NormalizeFilePath(device, originalPath) ==
    LET turned == [i \in DOMAIN originalPath |->
                      IF originalPath[i] = Slash THEN Sep ELSE originalPath[i]]
        path == DevicePathToDosPath(device, WithWindowsDir(WithoutNamespace(Unquoted(turned))))
    IN  IF Len(path) >= 2 /\ path[1] \in ToSet(Drives) /\ path[2] = Sep THEN GetFullPathSafe(path)
        ELSE path

\* Trailing separators go, except the one of a drive's root.
RemoveTrailingSlash(path) ==
    LET kept == {n \in 0..Len(path) : \A i \in (n + 1)..Len(path) : path[i] \in {Sep, Slash}}
        n == CHOOSE m \in kept : \A k \in kept : m <= k
    IN  SubSeq(path, 1, IF n = 1 /\ Len(path) > 1 /\ path[1] \in ToSet(Drives) THEN 2 ELSE n)

\* Mutant: a folder is added once for each of its spellings.
AddFolder(device, folders, folder) ==
    IF folder = <<>> THEN folders
    ELSE Append(folders, RemoveTrailingSlash(NormalizeFilePath(device, folder)))

\* A folder for which the system has no text is left out, and so is one that is
\* in the list in another spelling.
AddUniqueFolder(device, folders, folder) ==
    LET normalized == RemoveTrailingSlash(NormalizeFilePath(device, folder))
    IN  IF folder = <<>> \/ \E f \in ToSet(folders) : ToLowerPath(f) = ToLowerPath(normalized)
        THEN folders
        ELSE Append(folders, normalized)

\* The folders of these texts, added one after the other.
AddAll(device, texts) ==
    LET added[n \in 0..Len(texts)] ==
          IF n = 0 THEN <<>> ELSE AddUniqueFolder(device, added[n - 1], texts[n])
    IN  added[Len(texts)]

\* Mutant: the default folders are not added to those the user has moved.
BuildKnownFoldersOnly(device, known, userProfile) ==
    AddAll(device, [n \in DOMAIN known |-> NormalizeFilePath(device, known[n])])

\* known are the answers of SHGetKnownFolderPath, userProfile is the value of
\* USERPROFILE; <<>> stands for a lookup that fails.
BuildProtectedPersonalFolders(device, known, userProfile) ==
    LET profile == NormalizeFilePath(device, userProfile)
        defaults == IF profile = <<>> THEN <<>>
                    ELSE [n \in DOMAIN ProfileFolders |-> profile \o <<Sep>> \o ProfileFolders[n]]
    IN  AddAll(device, [n \in DOMAIN known |-> NormalizeFilePath(device, known[n])] \o defaults)

IsSameOrInsideFolder(device, normalizedPath, normalizedFolder) ==
    LET path == ToLowerPath(RemoveTrailingSlash(NormalizeFilePath(device, normalizedPath)))
        dir  == ToLowerPath(RemoveTrailingSlash(NormalizeFilePath(device, normalizedFolder)))
    IN  /\ normalizedPath # <<>> /\ normalizedFolder # <<>>
        /\ \/ path = dir
           \/ Len(path) > Len(dir) /\ IsPrefix(dir, path) /\ path[Len(dir) + 1] \in {Sep, Slash}

\* The working directory lies in a protected folder and is exempt.
IsProtectedOutsideWorkingDir(device, folders, path) ==
    LET normalized == NormalizeFilePath(device, path)
    IN  /\ path # <<>>
        /\ ~IsSameOrInsideFolder(device, normalized, WorkingDir)
        /\ \E folder \in ToSet(folders) : IsSameOrInsideFolder(device, normalized, folder)
=============================================================================
