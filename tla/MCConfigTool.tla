---------------------------- MODULE MCConfigTool ----------------------------
(* Two processes, each with any of the command lines, on a client's and a  *)
(* server's configuration.                                                 *)
EXTENDS ConfigTool, TLC

T(t) == <<"targets", t>>
Disk == ("client" :> {<<"targets">>, T("a"), T("a") \o <<"ways">>})
          @@ ("server" :> {<<"targets">>, T("c")})

File(f) == [op |-> "config", file |-> f]
Targets(ts) == [op |-> "add-targets", items |-> {T(t) : t \in ts}]
Op(o) == [op |-> o]

MCLines == {
  \* two files, the first saved on the way
  <<File("client"), Targets({"a", "b"}), File("server"),
    [op |-> "add-com-plugin", plugin |-> "tcp"]>>,
  <<File("client"), [op |-> "add-way", target |-> "a", ways |-> {"w", "v"}],
    [op |-> "import-targets", file |-> "server"]>>,
  \* a new file in the place of the old one, of which the changes are saved
  <<File("client"), Targets({"b"}), Op("init-server"), File("server"),
    [op |-> "add-event-plugin", items |-> {<<"eventhandlers", "e">>}], Op("list-targets")>>,
  <<Op("init-client"), File("client"), Targets({"d"}), File("client"), Op("list-targets")>>,
  \* no name after -ic, no name at all, an argument missing, -Et
  <<File("client"), Targets({"b"}), Op("init-client")>>,
  <<Op("init-server"), Op("init-client")>>,
  <<File("server"), Targets({"d"}), Op("too-few")>>,
  <<File("client"), Op("export-target")>> }
=============================================================================
