-------------------------------- MODULE Auth --------------------------------
(***************************************************************************)
(* ttpkit-auth: quoted strings, authentication challenges, the Digest      *)
(* scheme from the challenge of the server to the check of the response,   *)
(* and the Basic scheme.                                                   *)
(*                                                                         *)
(* A hash is a symbol that names its function and its input: equal inputs  *)
(* have equal hashes and no others.                                        *)
(***************************************************************************)
EXTENDS Ascii

DQ == "\""
BS == "\\"

(************************ the reader of the strings ************************)

(* StringReader of str_reader: a reader is what is left of its string.     *)
ReadUntil(s, stops) ==
    LET at == SelectInSeq(s, LAMBDA b : b \in stops)
        n == IF at = 0 THEN Len(s) ELSE at - 1
    IN  [read |-> SubSeq(s, 1, n), rest |-> SubSeq(s, n + 1, Len(s))]

ReadWord(s) == ReadUntil(TrimStart(s), Whitespace)
StartsWithSymbol(s, b) == s # <<>> /\ s[1] = b

EscapedQuotes(s) ==
    FlattenSeq([i \in 1..Len(s) |-> IF s[i] = DQ THEN <<BS, DQ>>
                                    ELSE <<s[i]>>])

(* DisplayEscaped.                                                         *)
Escaped(s) ==
    FlattenSeq([i \in 1..Len(s) |-> IF s[i] \in {DQ, BS} THEN <<BS, s[i]>>
                                    ELSE <<s[i]>>])

Quoted(s) == <<DQ>> \o Escaped(s) \o <<DQ>>

(* parse_quoted_string: what has been read and what is left, or None.      *)
RECURSIVE Unquote(_, _)
Unquote(read, s) ==
    IF s = <<>> \/ s = <<BS>> THEN None
    ELSE IF s[1] = DQ THEN Some([read |-> read, rest |-> Tail(s)])
    ELSE IF s[1] = BS
         THEN Unquote(Append(read, s[2]), SubSeq(s, 3, Len(s)))
    ELSE Unquote(Append(read, s[1]), Tail(s))

ParseQuotedString(s) ==
    IF StartsWithSymbol(s, DQ) THEN Unquote(<<>>, Tail(s)) ELSE None

(* A value in quotes or else the word that has been read.                  *)
ReadValue(s, word) ==
    IF StartsWithSymbol(s, DQ) THEN ParseQuotedString(s) ELSE Some(word)

(* What a parser of a part of a string yields: whether there was no error, *)
(* the part if there was one, and what is left.                            *)
Part(ok, part, rest) == [ok |-> ok, part |-> part, rest |-> rest]
Failed == Part(FALSE, None, <<>>)

Param(name, value) == [name |-> name, value |-> value]

ParamValue(param) == IF param = None THEN None ELSE Some(param[1].value)
LastParam(params, name) ==
    ParamValue(ElementAt(params,
        SelectLastInSeq(params, LAMBDA p : p.name = <<name>>)))

(***************************** challenges **********************************)

EndOfWord == {","} \union Whitespace

ParseChallengeToken(s) ==
    LET t == ReadUntil(TrimStart(s), EndOfWord)
        last == SelectLastInSeq(t.read, LAMBDA b : b # "=")
    IN  IF t.read = <<>> \/ Contains(SubSeq(t.read, 1, last), "=")
        THEN Part(TRUE, None, s)
        ELSE Part(TRUE, Some(t.read), t.rest)

ChallengeParam(name, value) ==
    IF value = None THEN Failed
    ELSE Part(TRUE, Some(Param(Lower(name), value[1].read)), value[1].rest)
NamedChallengeParam(s, name, afterName) ==
    LET v == TrimStart(Tail(afterName))
    IN  IF ~StartsWithSymbol(afterName, "=") THEN Part(TRUE, None, s)
        ELSE IF name = <<>> THEN Failed
        ELSE ChallengeParam(name, ReadValue(v, ReadUntil(v, EndOfWord)))
ParseChallengeParam(s) ==
    LET n == ReadUntil(TrimStart(s), {"="} \union EndOfWord)
    IN  NamedChallengeParam(s, n.read, TrimStart(n.rest))

(* The loop over the parameters of one challenge; what is left of a        *)
(* malformed parameter is skipped, and the comma after it.                 *)
RECURSIVE ChallengeParams(_, _)
ChallengeParams(params, s) ==
    LET p == ParseChallengeParam(s)
        comma == ReadUntil(TrimStart(p.rest), {","}).rest
    IN  IF ~p.ok THEN Failed
        ELSE IF p.part = None THEN Part(TRUE, Some(params), s)
        ELSE ChallengeParams(params \o p.part, SubSeq(comma, 2, Len(comma)))

Challenge(scheme, token, params) ==
    [scheme |-> scheme, token |-> token, params |-> params]

WithParams(scheme, ps) ==
    IF ~ps.ok THEN Failed
    ELSE Part(TRUE, Some(Challenge(scheme, None, ps.part[1])), ps.rest)
ChallengeAfter(scheme, s, t) ==
    IF t.part # None
    THEN Part(TRUE, Some(Challenge(scheme, t.part, <<>>)), t.rest)
    ELSE WithParams(scheme, ChallengeParams(<<>>, s))
ParseChallenge(s) ==
    LET n == ReadUntil(TrimStart(s), EndOfWord)
    IN  IF n.read = <<>> THEN Part(TRUE, None, n.rest)
        ELSE ChallengeAfter(Lower(n.read), n.rest, ParseChallengeToken(n.rest))

SkipEmptyItems(s) ==
    LET at == SelectInSeq(s, LAMBDA b : b \notin EndOfWord)
    IN  IF at = 0 THEN <<>> ELSE SubSeq(s, at, Len(s))

(* AuthChallenge::parse: None is an error.                                 *)
AllChallenges(c, others) ==
    IF ~c.ok \/ others = None THEN None ELSE Some(c.part \o others[1])
RECURSIVE ParseChallenges(_)
ParseChallenges(s) ==
    LET c == ParseChallenge(s)
    IN  IF s = <<>> THEN Some(<<>>)
        ELSE AllChallenges(c, ParseChallenges(SkipEmptyItems(c.rest)))

(*************************** Digest: its values ****************************)

Families == {"MD5", "SHA", "SHA-256", "SHA-512-256"}
Algorithm(family, sess) == [family |-> family, sess |-> sess]
Algorithms == [family : Families, sess : BOOLEAN]
Md5 == Algorithm("MD5", FALSE)

AlgorithmName(a) == <<a.family \o (IF a.sess THEN "-sess" ELSE "")>>
ParseAlgorithm(s) ==
    LET named == {a \in Algorithms :
                      s = <<a.family \o (IF a.sess THEN "-SESS" ELSE "")>>}
    IN  IF named = {} THEN None ELSE Some(CHOOSE a \in named : TRUE)

Hash(a, input) == <<ToString(<<a.family, input>>)>>

ParseQop(s) == IF s \in {<<"auth">>, <<"auth-int">>} THEN Some(s[1]) ELSE None

(* QualityOfProtection::parse_many: words, sorted and without repetition.  *)
RECURSIVE QopWords(_)
QopWords(s) ==
    LET w == ReadWord(s)
    IN  IF s = <<>> THEN {}
        ELSE ToSet(ParseQop(w.read)) \union QopWords(w.rest)

ParseQops(s) ==
    SelectSeq(<<"auth", "auth-int">>, LAMBDA q : q \in QopWords(s))

Colons(parts) ==
    FlattenSeq([i \in 1..Len(parts) |->
                    IF i = 1 THEN parts[i] ELSE <<":">> \o parts[i]])

(************************** Digest: the challenge **************************)

DigestChallenge(realm, nonce, algorithmParam, algorithm, qops, opaque) ==
    [realm |-> realm, nonce |-> nonce, algorithm_param |-> algorithmParam,
     algorithm |-> algorithm, qops |-> qops, opaque |-> opaque]

(* DigestChallengeBuilder, with its setters as arguments.                  *)
BuildChallenge(realm, nonce, qops, algorithm, emitMd5, opaque) ==
    DigestChallenge(realm, nonce,
        IF ~emitMd5 /\ algorithm.family = "MD5" THEN None
        ELSE Some(AlgorithmName(algorithm)),
        algorithm, qops, opaque)

ParamText(name, value) == <<",", " ", name, "=">> \o value
OptionalText(name, option) ==
    IF option = None THEN <<>> ELSE ParamText(name, option[1])
OptionalQuoted(name, option) ==
    IF option = None THEN <<>> ELSE ParamText(name, Quoted(option[1]))

ChallengeText(c) ==
    LET qops == FlattenSeq([i \in 1..Len(c.qops) |->
                    IF i = 1 THEN <<c.qops[i]>> ELSE <<",", " ", c.qops[i]>>])
    IN  <<"Digest", " ", "realm", "=">> \o Quoted(c.realm)
            \o ParamText("nonce", Quoted(c.nonce))
            \o OptionalText("algorithm", c.algorithm_param)
            \o (IF c.qops = <<>> THEN <<>> ELSE ParamText("qop", Quoted(qops)))
            \o OptionalQuoted("opaque", c.opaque)

(* pick_algorithm: the first that is supported of a list.                  *)
PickAlgorithm(s) ==
    LET parts == SplitAll(s, ",")
        known == SelectSeq([i \in 1..Len(parts) |-> TrimAscii(parts[i])],
                           LAMBDA p : ParseAlgorithm(p) # None)
    IN  IF known = <<>> THEN None ELSE Some(known[1])

(* TryFrom<&AuthChallenge>: None is an error.                              *)
ToDigestChallenge(c) ==
    LET P(name) == LastParam(c.params, name)
        picked == IF P("algorithm") = None THEN None
                  ELSE PickAlgorithm(P("algorithm")[1])
        qops == IF P("qop") = None THEN <<>> ELSE ParseQops(P("qop")[1])
    IN  IF \/ c.scheme # <<"digest">>
           \/ P("realm") = None \/ P("nonce") = None
           \/ P("algorithm") # None /\ picked = None
           \/ P("qop") # None /\ qops = <<>>
        THEN None
        ELSE Some(DigestChallenge(P("realm")[1], P("nonce")[1], picked,
                 IF picked = None THEN Md5 ELSE ParseAlgorithm(picked[1])[1],
                 qops, P("opaque")))

(************************** Digest: the response ***************************)

PasswordHash(a, username, realm, password) ==
    Hash(a, Colons(<<username, realm, password>>))

(* get_qop, get_a1 and get_a2.                                             *)
ChosenQop(c, body) ==
    IF c.qops = <<>> THEN None
    ELSE IF body # None /\ Contains(c.qops, "auth-int") THEN Some("auth-int")
    ELSE IF Contains(c.qops, "auth") THEN Some("auth") ELSE Some("auth-int")

A1Hash(c, username, password, cnonce) ==
    LET hash == PasswordHash(c.algorithm, username, c.realm, password)
    IN  IF c.algorithm.sess
        THEN Hash(c.algorithm, Colons(<<hash, c.nonce, cnonce>>)) ELSE hash

A2(c, method, uri, body) ==
    IF ChosenQop(c, body) = Some("auth-int")
    THEN Colons(<<method, uri, Hash(c.algorithm, body[1])>>)
    ELSE Colons(<<method, uri>>)

(* DigestResponseBuilder::build; None is the error of a missing body.      *)
BuildResponse(c, nc, cnonce, echoMd5, method, uri, body, username, password) ==
    LET qop == ChosenQop(c, body)
        a1 == A1Hash(c, username, password, cnonce)
        a2 == Hash(c.algorithm, A2(c, method, uri, body))
        data == IF qop = None THEN <<a1, c.nonce, a2>>
                ELSE <<a1, c.nonce, nc, cnonce, qop, a2>>
    IN  IF qop = Some("auth-int") /\ body = None THEN None
        ELSE Some([realm |-> c.realm, uri |-> uri, username |-> username,
                   qop |-> qop, nonce |-> c.nonce, cnonce |-> Some(cnonce),
                   nc |-> Some(nc),
                   algorithm_param |->
                       IF ~echoMd5 /\ c.algorithm.family = "MD5" THEN None
                       ELSE c.algorithm_param,
                   algorithm |-> c.algorithm, opaque |-> c.opaque,
                   response |-> Hash(c.algorithm, Colons(data))])

ResponseText(r) ==
    <<"Digest", " ", "username", "=">> \o Quoted(r.username)
        \o ParamText("realm", Quoted(r.realm))
        \o ParamText("nonce", Quoted(r.nonce))
        \o ParamText("uri", Quoted(r.uri))
        \o ParamText("response", Quoted(r.response))
        \o OptionalQuoted("opaque", r.opaque)
        \o OptionalText("algorithm", r.algorithm_param)
        \o (IF r.qop = None THEN <<>>
            ELSE ParamText("qop", r.qop) \o OptionalText("nc", r.nc)
                     \o OptionalQuoted("cnonce", r.cnonce))

(* parse_auth_param: empty items are skipped; anything between the value   *)
(* and the next comma is an error.                                         *)
AuthParamEnd(name, value, rest) ==
    IF rest # <<>> /\ rest[1] # "," THEN Failed
    ELSE Part(TRUE, Some(Param(Lower(name), value)), SubSeq(rest, 2, Len(rest)))
AuthParamValue(name, value) ==
    IF value = None THEN Failed
    ELSE AuthParamEnd(name, value[1].read, TrimStart(value[1].rest))
NamedAuthParam(name, rest) ==
    LET v == TrimStart(Tail(rest))
    IN  IF name = <<>> \/ ~StartsWithSymbol(rest, "=") THEN Failed
        ELSE AuthParamValue(name,
                 ReadValue(v, [ReadUntil(v, {","}) EXCEPT !.read = TrimAscii(@)]))

RECURSIVE ParseAuthParam(_)
ParseAuthParam(s) ==
    LET n == ReadUntil(s, {",", "="})
        name == TrimAscii(n.read)
    IN  IF name = <<>> /\ n.rest = <<>> THEN Part(TRUE, None, <<>>)
        ELSE IF name = <<>> /\ n.rest[1] = "," THEN ParseAuthParam(Tail(n.rest))
        ELSE NamedAuthParam(name, n.rest)

RECURSIVE AuthParams(_, _)
AuthParams(params, s) ==
    LET p == ParseAuthParam(s)
    IN  IF ~p.ok THEN None
        ELSE IF p.part = None THEN Some(params)
        ELSE AuthParams(params \o p.part, p.rest)

(* FromStr of DigestResponse: None is an error.                            *)
ResponseOf(params) ==
    LET P(name) == LastParam(params, name)
        qop == IF P("qop") = None THEN None ELSE ParseQop(P("qop")[1])
        algorithm == IF P("algorithm") = None THEN Some(Md5)
                     ELSE ParseAlgorithm(P("algorithm")[1])
        required == {"realm", "uri", "username", "nonce", "response"}
    IN  IF \/ \E name \in required : P(name) = None
           \/ algorithm = None
           \/ P("qop") # None /\ qop = None
           \/ \E name \in {"cnonce", "nc"} : (P(name) = None) # (qop = None)
        THEN None
        ELSE Some([realm |-> P("realm")[1], uri |-> P("uri")[1],
                   username |-> P("username")[1], qop |-> qop,
                   nonce |-> P("nonce")[1], cnonce |-> P("cnonce"),
                   nc |-> P("nc"), algorithm_param |-> P("algorithm"),
                   algorithm |-> algorithm[1], opaque |-> P("opaque"),
                   response |-> P("response")[1]])
ResponseIfRead(params) == IF params = None THEN None ELSE ResponseOf(params[1])
ParseResponse(s) ==
    LET scheme == ReadWord(s)
    IN  IF ~EqIgnoreCase(scheme.read, <<"Digest">>) THEN None
        ELSE ResponseIfRead(AuthParams(<<>>, scheme.rest))

(* verify.                                                                 *)
Verify(r, method, passwordHash) ==
    LET a2 == Hash(r.algorithm, Colons(<<method, r.uri>>))
        data == IF r.qop = None THEN <<passwordHash, r.nonce, a2>>
                ELSE <<passwordHash, r.nonce, r.nc[1], r.cnonce[1], r.qop, a2>>
    IN  /\ r.qop # Some("auth-int")
        /\ Hash(r.algorithm, Colons(data)) = r.response

(******************************** Basic ************************************)

BasicAuth(username, password) == [username |-> username, password |-> password]

(* base64, a symbol at a time.                                             *)
Base64 == ("a" :> "YQ") @@ ("b" :> "Yg") @@ (":" :> "Og") @@ (" " :> "IA")

BasicText(auth) ==
    LET credentials == Colons(<<auth.username, auth.password>>)
    IN  <<"Basic", " ">>
            \o [i \in 1..Len(credentials) |-> Base64[credentials[i]]]

ParseBasic(s) ==
    LET at == SplitAtSpace(TrimStart(s))
        coded == TrimAscii(at[1].end)
        Decoded(b) == CHOOSE c \in DOMAIN Base64 : Base64[c] = b
        credentials == SplitAt([i \in 1..Len(coded) |-> Decoded(coded[i])], ":")
    IN  IF \/ at = None \/ ~EqIgnoreCase(at[1].start, <<"Basic">>)
           \/ \E i \in 1..Len(coded) : \A c \in DOMAIN Base64 : Base64[c] # coded[i]
           \/ credentials = None
        THEN None
        ELSE Some(BasicAuth(credentials[1].start, credentials[1].end))
=============================================================================
