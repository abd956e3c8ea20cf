---------------------------- MODULE MCEventDispatch ----------------------------
(* Providers, filters and events for TLC. *)
EXTENDS EventFilters

Fixed(name, n) == [name |-> name, in |-> "fixed", length |-> n, tdh |-> n]
Pointer(name) == [name |-> name, in |-> "pointer", length |-> 2, tdh |-> 2]
Text(name) == [name |-> name, in |-> "string", length |-> 0, tdh |-> 0]
Counted(name, n) == [name |-> name, in |-> "fixed", length |-> 0, tdh |-> n]

Header(guid, owner, id, flags) ==
    [provider |-> guid, owner |-> owner, name |-> "", id |-> id, version |-> 0,
     opcode |-> 0, level |-> {2}, keyword |-> {4}, flags |-> flags]

With(header, props, written, narrow) ==
    header @@ [props |-> props, written |-> written, data |-> FlattenSeq(written),
               narrow |-> narrow]
CutTo(event, n) == [event EXCEPT !.data = SubSeq(@, 1, n)]

\* The file provider's events: a whole one, one of 32-bit code whose path ends
\* with the data, one cut off, one with an empty list in the middle.
CreateFile == With(Header("file", "file", 12, {}),
    <<Pointer("FileObject"), Text("FileName"), Fixed("Status", 1), Fixed("Flags", 1)>>,
    << <<1, 1>>, <<1, 1, 0>>, <<1>>, <<0>> >>, FALSE)
NameFile == With(Header("file", "file", 10, {}),
    <<Pointer("FileKey"), Text("FileName")>>, << <<1>>, <<1, 1>> >>, TRUE)
Truncated == CutTo(With([Header("file", "file", 24, {}) EXCEPT !.keyword = {5}, !.level = {1}],
    <<Fixed("Irp", 1), Fixed("NtStatus", 1), Fixed("Extra", 1)>>, << <<1>>, <<1>>, <<1>> >>, FALSE), 1)
Sparse == With([Header("file", "file", 30, {}) EXCEPT !.level = {1}],
    <<Fixed("Irp", 1), Counted("List", 0), Text("FileName")>>, << <<1>>, <<>>, <<1>> >>, FALSE)
\* A classic event, whose header names a message.
Classic == With(Header("message", "library", 1, {"classic"}),
    <<[name |-> "Sid", in |-> "wbemsid", length |-> 0, tdh |-> 5]>>,
    << <<0, 0, 0, 0, 1>> >>, FALSE)
\* An event of the library provider, and one of a traced message.
Library == With(Header("library", "library", 2, {"tl"}),
    <<Text("Image"), Fixed("Level", 1)>>, << <<2, 1, 0>>, <<1>> >>, FALSE)
Traced == With([Header("message", "library", 3, {"message"}) EXCEPT !.keyword = {}],
    <<>>, <<>>, FALSE)

PropertyPredicate == [op |-> "property_is", name |-> "Level",
                      type |-> [kind |-> "sized", size |-> 1], expected |-> <<1>>]
IdPredicate(n) == [op |-> "header_is", field |-> "id", expected |-> n]

View(compare, ignoreCase, expected) ==
    [op |-> "property_view", name |-> "Image", compare |-> compare,
     ignoreCase |-> ignoreCase, expected |-> expected]

Filter(name, ids, predicate, callback) ==
    AddOnEventCallback(NewFilter(name, ids, predicate), callback)
Requesting(p, any, level) == [p EXCEPT !.any = any, !.level = level]
WithFilters(p, filters) == FoldLeft(AddFilter, p, filters)

\* The program's kind, another user of the same GUID, and two that use filters.
KernelFile == Requesting(AddOnEventCallback(NewProvider("KernelFile", "file"), "guarded"), {4}, {0, 2})
SecondFile == Requesting(AddOnEventCallback(NewProvider("SecondFile", "file"), "guarded"), {5}, {1})
Filtered == WithFilters(AddOnErrorCallback(NewProvider("Filtered", "library")),
    << AddOnErrorCallback(Filter("byProperty", {},
           [op |-> "and", args |-> <<IdPredicate(2), PropertyPredicate>>], "plain")),
       Filter("byId", {}, [op |-> "any_of", args |-> <<IdPredicate(2), PropertyPredicate>>], "plain"),
       AddOnErrorCallback(Filter("others", {}, [op |-> "none_of", args |-> <<PropertyPredicate,
           [op |-> "all_of", args |-> <<>>]>>], "schema")) >>)
Callbacks == WithFilters(AddOnErrorCallback(AddOnEventCallback(AddOnEventCallback(
        NewProvider("Callbacks", "library"), "plain"), "schema")),
    << Filter("ids", {2}, [op |-> "not", arg |-> [op |-> "no_event"]], "plain") >>)
\* One for each way to compare the path of an image.
Images == WithFilters(NewProvider("Images", "library"),
    << Filter("all", {}, View("equals", TRUE, <<3, 1>>), "plain"),
       Filter("beginning", {}, View("starts_with", FALSE, <<2, 1, 1>>), "plain"),
       Filter("middle", {}, View("contains", TRUE, <<3>>), "plain"),
       Filter("end", {}, View("ends_with", FALSE, <<3, 1>>), "plain") >>)

MCEvents == {CreateFile, NameFile, Truncated, Sparse, Classic, Library, Traced}
MCRegistrable == {KernelFile, SecondFile, Filtered, Callbacks, Images}
MCTypes == {[kind |-> "sized", size |-> 1], [kind |-> "string", size |-> 0],
            [kind |-> "binary", size |-> 0], [kind |-> "sid", size |-> 0]}
MCAccepts == {"classic", "message"}
=============================================================================
