------------------------------ MODULE MCStartup ------------------------------
(***************************************************************************)
(* Configurations to start the program with.  File(...) is a complete one  *)
(* that differs in its sections of providers and gateways and in its       *)
(* prompt.  The entry at the top level that has the name of a gateway and  *)
(* a provider belongs to neither.                                          *)
(***************************************************************************)
EXTENDS Startup, TLC

One(key, value) == <<key>> :> value

Stray == Table(One("token", Text("stray")) @@ One("base-url", Text("stray")))

File(provider, gateway, prompt) ==
    Table(One("database", Table(One("path", Text("db")))) @@
          One("model", Table(One("default", Table(
                One("provider", Text("a")) @@ One("name", Text("m")) @@
                One("soul", prompt))))) @@
          One("provider", Table(provider)) @@
          One("gateway", Table(gateway)) @@
          One("a", Stray))

Secret == {Text("t"), Number, Directive("from-env", "TOKEN"),
           Directive("from-file", "token")}

OpenAI(key) == Table(One("type", Text("openai")) @@ One("base-url", Text("u")) @@
                     One("api-key", key))
Discord(token) == Table(One("type", Text("discord")) @@ One("token", token))
Listing(channels) ==
    Table(One("type", Text("discord")) @@ One("token", Text("t")) @@
          One("allowed-channels", channels))

Plain == One("a", OpenAI(Text("k")))

MCFiles ==
    {File(One("a", OpenAI(key)), One("a", Discord(token)), Text("soul")) :
        key \in Secret, token \in Secret}
    \cup
    {File(Plain, One("a", Listing(channels)), Directive("from-file", "token")) :
        channels \in {Array(<<>>), Array(<<Number, Text("7")>>), Text("7"),
                      Array(<<Directive("from-env", "TOKEN")>>), Array(<<Text("x")>>)}}
    \cup
    {File(Plain, gateway, Text("soul")) : gateway \in {
        <<>>,
        One("a", Discord(Text("t"))) @@ One("b", Discord(Text("s"))),
        One("a", Discord(Text("t"))) @@ One("b", Text("s")),
        One("a", Discord(Text("t"))) @@ One("", Discord(Text("s"))),
        One("a", Discord(Text("t"))) @@ One("b", Table(One("type", Text("irc")))),
        \* the name of the second has a dot, and leads into the first
        One("a", Table(One("type", Text("discord")) @@ One("token", Text("t")) @@
                       One("b", Table(One("token", Text("inner")))))) @@
        (<<"a", "b">> :> Discord(Text("outer")))}}
    \cup
    {File(Plain, One("a", Discord(Text("t"))), Number),
     File(One("a", Table(One("type", Text("openai")))), <<>>, Text("soul")),
     File(One("a", Table(One("type", Text("other")))), <<>>, Text("soul")),
     Table(One("database", Table(One("path", Number)))),
     Table(One("database", Table(One("path", Text("db")) @@ One("temporary", Flag))))}

(* The texts that the directives above name; the variable may be missing.  *)
MCExternals ==
    {("from-env" :> environment) @@ ("from-file" :> ("token" :> "file")) :
        environment \in {"TOKEN" :> "7", <<>>}}

(* All values within the files, and how deep they are.                     *)
RECURSIVE Within(_)
Within(value) == {value} \cup UNION {Within(part) : part \in Parts(value)}

MCValues == UNION {Within(file_) : file_ \in MCFiles}

RECURSIVE Height(_)
Height(value) ==
    IF Parts(value) = {} THEN 0
    ELSE 1 + CHOOSE h \in 0 .. 9 :
                /\ \E part \in Parts(value) : Height(part) = h
                /\ \A part \in Parts(value) : Height(part) <= h

MCDepth == [value \in MCValues |-> Height(value)]
=============================================================================
