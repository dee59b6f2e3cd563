-------------------------------- MODULE Urls --------------------------------
(***************************************************************************)
(* ttpkit-url: Url (lib.rs) with its parser and everything that builds a   *)
(* new URL from an old one, QueryDict (query.rs), and the URL that the     *)
(* HTTP server reconstructs for a request (server/request.rs).             *)
(*                                                                         *)
(* A URL is its text and the offsets that the parser has found in it;      *)
(* offsets count from 0, as in the code, and may be absent.                *)
(***************************************************************************)
EXTENDS Numbers

Alphabetic == {"a", "b", "h", "http", "https"}
Alphanumeric == Alphabetic \union ToSet(DecDigits)

(* &s[from..to], s.find(b) and s.rfind(b).                                 *)
Slice(s, from, to) == SubSeq(s, from + 1, to)
From(s, from) == SubSeq(s, from + 1, Len(s))
Offset(i) == IF i = 0 THEN None ELSE Some(i - 1)
Find(s, b) == Offset(SelectInSeq(s, LAMBDA x : x = b))
RFind(s, b) == Offset(SelectLastInSeq(s, LAMBDA x : x = b))
StartsWith(s, t) == IsPrefix(t, s)
Else(option, default) == IF option = None THEN default ELSE option[1]
Shift(option, n) == IF option = None THEN None ELSE Some(option[1] + n)
Before(option, default) == IF option = None THEN default ELSE option[1] - 1

(****************************** the parser *********************************)

IsValidScheme(s) ==
    /\ s # <<>> /\ s[1] \in Alphabetic
    /\ \A i \in DOMAIN s : s[i] \in Alphanumeric \union {"+", "-", "."}

(* The rest of process_authority reads the port as a u16.                  *)
ParsePort(s) == ParseUnsigned(s, U16)

(* process_path: the fragment begins at the first "#", the query at the    *)
(* first "?" before it.                                                    *)
ProcessPath(u, path, fragment) ==
    LET end == Before(fragment, Len(u.serialized))
    IN  Some([u EXCEPT
            !.path_start = Some(path), !.fragment_start = fragment,
            !.query_start = Shift(Find(Slice(u.serialized, path, end), "?"),
                                  path + 1)])

(* process_authority, in the order of the text: the credentials up to the  *)
(* last "@", the host, and the port behind the last ":", unless that is a  *)
(* part of an address in brackets.                                         *)
PortOf(u, start, text) ==
    LET port == ParsePort(text)
    IN  IF port = None THEN None
        ELSE Some([u EXCEPT !.port_start = Some(start), !.port = port])
ProcessNetloc(u, netloc) ==
    LET colon == IF netloc # <<>> /\ netloc[Len(netloc)] = "]" THEN None
                 ELSE RFind(netloc, ":")
    IN  IF colon = None THEN Some(u)
        ELSE PortOf(u, u.netloc_start + colon[1] + 1, From(netloc, colon[1] + 1))
ProcessAuthority(u, authority, at) ==
    LET start == u.netloc_start
    IN  IF at = None THEN ProcessNetloc(u, authority)
        ELSE ProcessNetloc([u EXCEPT
                 !.netloc_start = start + at[1] + 1, !.username_start = Some(start),
                 !.password_start =
                     Shift(Find(Slice(authority, 0, at[1]), ":"), start + 1)],
                 From(authority, at[1] + 1))

(* process_hierarchy: the path begins at the first "/" of the rest.        *)
WithPath(u, path) ==
    IF u = None \/ path = None THEN u
    ELSE ProcessPath(u[1], path[1],
             Shift(Find(From(u[1].serialized, path[1]), "#"), path[1] + 1))
ProcessHierarchy(u, path) ==
    LET authority == Slice(u.serialized, u.netloc_start,
                           Else(path, Len(u.serialized)))
    IN  WithPath(ProcessAuthority(u, authority, RFind(authority, "@")), path)

(* InnerUrl::init.  None is an error.                                      *)
NewUrl(s, hierarchy) ==
    [serialized |-> s, hierarchy_start |-> hierarchy,
     netloc_start |-> hierarchy + 2, username_start |-> None,
     password_start |-> None, port_start |-> None, path_start |-> None,
     query_start |-> None, fragment_start |-> None, port |-> None]
InitUrl(s, colon) ==
    IF \/ colon = None
       \/ ~IsValidScheme(Slice(s, 0, colon[1]))
       \/ ~StartsWith(From(s, colon[1] + 1), <<"/", "/">>)
    THEN None
    ELSE ProcessHierarchy(NewUrl(s, colon[1] + 1),
             Shift(Find(From(s, colon[1] + 3), "/"), colon[1] + 3))
ParseUrl(s) == InitUrl(s, Find(s, ":"))

(***************************** the accessors *******************************)

Scheme(u) == Slice(u.serialized, 0, u.hierarchy_start - 1)
UrlAuth(u) ==
    IF u.username_start = None THEN None
    ELSE Some(Slice(u.serialized, u.username_start[1], u.netloc_start - 1))
Username(u) ==
    IF u.username_start = None THEN None
    ELSE Some(Slice(u.serialized, u.username_start[1],
                    Else(u.password_start, u.netloc_start) - 1))
Password(u) ==
    IF u.password_start = None THEN None
    ELSE Some(Slice(u.serialized, u.password_start[1], u.netloc_start - 1))
Netloc(u) ==
    Slice(u.serialized, u.netloc_start, Else(u.path_start, Len(u.serialized)))
HostOf(u) ==
    Slice(u.serialized, u.netloc_start,
          Before(u.port_start, Else(u.path_start, Len(u.serialized))))
Path(u) ==
    IF u.path_start = None THEN <<"/">>
    ELSE Slice(u.serialized, u.path_start[1],
               Before(IF u.query_start # None THEN u.query_start
                      ELSE u.fragment_start, Len(u.serialized)))
QueryOf(u) ==
    IF u.query_start = None THEN None
    ELSE Some(Slice(u.serialized, u.query_start[1],
                    Before(u.fragment_start, Len(u.serialized))))
PathWithQuery(u) ==
    IF u.path_start = None THEN <<"/">>
    ELSE Slice(u.serialized, u.path_start[1],
               Before(u.fragment_start, Len(u.serialized)))
PathWithQueryAndFragment(u) ==
    IF u.path_start = None THEN <<"/">>
    ELSE From(u.serialized, u.path_start[1])
Fragment(u) ==
    IF u.fragment_start = None THEN None
    ELSE Some(From(u.serialized, u.fragment_start[1]))
BaseUrlStr(u) ==
    Slice(u.serialized, 0, Else(u.path_start, Len(u.serialized)))

BaseUrl(u) == [u EXCEPT !.serialized = BaseUrlStr(u), !.path_start = None,
                        !.query_start = None, !.fragment_start = None]

(*********************** a new URL from an old one *************************)

Root(u) == Scheme(u) \o <<":", "/", "/">>
Marked(mark, option) == IF option = None THEN <<>> ELSE <<mark>> \o option[1]
At(auth) == IF auth = None THEN <<>> ELSE auth[1] \o <<"@">>

WithAuth(u, auth) ==
    ParseUrl(Root(u) \o At(auth) \o Netloc(u) \o PathWithQueryAndFragment(u))
WithCredentials(u, username, password) ==
    ParseUrl(Root(u) \o At(Some(username \o <<":">> \o password))
             \o Netloc(u) \o PathWithQueryAndFragment(u))
WithNetloc(u, netloc) ==
    ParseUrl(Root(u) \o At(UrlAuth(u)) \o netloc
             \o PathWithQueryAndFragment(u))
WithQuery(u, query) ==
    ParseUrl(BaseUrlStr(u) \o Path(u) \o Marked("?", query)
             \o Marked("#", Fragment(u)))

WithFragmentOnly(u, fragment) ==
    ParseUrl(BaseUrlStr(u) \o Path(u) \o Marked("#", fragment))

WithFragment(u, fragment) ==
    ParseUrl(BaseUrlStr(u) \o Path(u) \o Marked("?", QueryOf(u))
             \o Marked("#", fragment))

IsAbsoluteUrl(s) ==
    LET at == SplitAt(s, ":")
    IN  at # None /\ IsValidScheme(at[1].start)
            /\ StartsWith(at[1].end, <<"/", "/">>)

Directory(path) == Slice(path, 0, RFind(path, "/")[1])
JoinedText(u, input) ==
    IF StartsWith(input, <<"/", "/">>) THEN Scheme(u) \o <<":">> \o input
    ELSE IF input[1] = "/" THEN BaseUrlStr(u) \o input
    ELSE IF IsAbsoluteUrl(input) THEN input
    ELSE BaseUrlStr(u) \o Directory(Path(u)) \o <<"/">> \o input
Join(u, text) ==
    LET input == TrimAscii(text)
    IN  IF input = <<>> THEN Some(u) ELSE ParseUrl(JoinedText(u, input))

(************************** the URL of a request ***************************)

DefaultPort(scheme) == IF scheme = <<"http">> THEN 80 ELSE 443

(* RequestContext::new: scheme, address and port of the server, the Host   *)
(* header field if there is one, and the path of the request line.         *)
RequestUrl(scheme, ip, port, hostField, path) ==
    LET host == IF hostField = None THEN ip
                ELSE SplitAll(hostField[1], ":")[1]
        netloc == IF port = DefaultPort(scheme) THEN host
                  ELSE host \o <<":">> \o EncodeDec(port)
    IN  ParseUrl(scheme \o <<":", "/", "/">> \o netloc \o path)

(****************************** query strings ******************************)

(* percent_encoding with NON_ALPHANUMERIC: the two digits after the        *)
(* percent sign are one symbol, by which the byte is known.                *)
HexPair == (" " :> "20") @@ ("%" :> "25") @@ ("&" :> "26") @@ ("=" :> "3D")
           @@ ("xFF" :> "FF")

UrlEncode(s) ==
    FlattenSeq([i \in 1..Len(s) |-> IF s[i] \in DOMAIN HexPair
                                    THEN <<"%", HexPair[s[i]]>> ELSE <<s[i]>>])

IsHexPair(b) == \E c \in DOMAIN HexPair : HexPair[c] = b

RECURSIVE UrlDecode(_)
UrlDecode(s) ==
    IF s = <<>> THEN <<>>
    ELSE IF s[1] = "%" /\ Len(s) > 1 /\ IsHexPair(s[2])
    THEN <<CHOOSE c \in DOMAIN HexPair : HexPair[c] = s[2]>>
             \o UrlDecode(SubSeq(s, 3, Len(s)))
    ELSE <<s[1]>> \o UrlDecode(Tail(s))

IsUtf8(s) == \A i \in DOMAIN s : s[i] # "xFF"

Item(key, value) == [key |-> key, value |-> value]

ItemText(item) ==
    UrlEncode(item.key)
        \o (IF item.value = None THEN <<>>
            ELSE <<"=">> \o UrlEncode(item.value[1]))

ParseItem(s) ==
    LET at == SplitAt(s, "=")
    IN  IF at = None THEN Item(UrlDecode(s), None)
        ELSE Item(UrlDecode(at[1].start), Some(UrlDecode(at[1].end)))

ItemIsUtf8(item) ==
    IsUtf8(item.key) /\ (item.value # None => IsUtf8(item.value[1]))

AddItem(dict, item) == Append(dict, item)
RemoveItems(dict, key) ==
    SelectSeq(dict, LAMBDA i : ~EqIgnoreCase(i.key, key))
SetItem(dict, item) == Append(RemoveItems(dict, item.key), item)
GetItems(dict, key) == SelectSeq(dict, LAMBDA i : EqIgnoreCase(i.key, key))
LastItem(dict, key) ==
    LET at == SelectLastInSeq(dict, LAMBDA i : EqIgnoreCase(i.key, key))
    IN  IF at = 0 THEN None ELSE Some(dict[at])
LastItemValue(dict, key) ==
    LET item == LastItem(dict, key)
    IN  IF item = None THEN None ELSE item[1].value

DictText(dict) ==
    IF dict = <<>> THEN <<>>
    ELSE Tail(FlattenSeq([i \in 1..Len(dict) |-> <<"&">> \o ItemText(dict[i])]))

(* QueryDict::from_str: None is the error of a part that is not UTF-8.     *)
IfUtf8(dict) ==
    IF \A i \in DOMAIN dict : ItemIsUtf8(dict[i]) THEN Some(dict) ELSE None
ParseDict(s) ==
    LET kept == Elements(SplitAll(s, "&"))
    IN  IfUtf8([i \in 1..Len(kept) |-> ParseItem(kept[i])])
=============================================================================
