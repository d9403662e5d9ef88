--------------------------- MODULE MCTranslation ----------------------------
(***************************************************************************)
(* Instances of Translation for TLC: NestJS apps with two controllers whose*)
(* paths may contend, whose handlers may need a login or share a key; apps *)
(* with one request body; and apps with one or two entities.  Controllers  *)
(* and entities are in files 1 and 2, a guard in file 3.                   *)
(***************************************************************************)
EXTENDS Translation

H(file, name, method, path, guarded, code) ==
    [file |-> file, line |-> 10, class |-> "UsersController", name |-> name, method |-> method,
     prefix |-> <<"users">>, path |-> path, code |-> code, body |-> None,
     classGuards |-> IF guarded /\ file = 1 THEN {"AuthGuard"} ELSE {},
     guards |-> IF guarded /\ file # 1 THEN {"AuthGuard"} ELSE {}]

App(handlers, fields, members) ==
    [packages |-> {"nestjs"} \cup (IF members = {} THEN {} ELSE {"typeorm"})
                  \cup (IF fields = {} THEN {} ELSE {"validator"}),
     handlers |-> handlers, guards |-> <<3>>, fields |-> fields, members |-> members,
     throws |-> IF fields = {} THEN {} ELSE {[file |-> 1, line |-> 90, status |-> "404"]}]

(* Routes. *)
Ones == {H(1, "findOne", "get", <<":id">>, g, None) : g \in BOOLEAN}
        \cup {H(1, "list", m, <<>>, TRUE, "204") : m \in {"post", "all"}}
Others == {H(2, n, "get", <<"me">>, g, None) : n \in {"me", "getCurrentUser"}, g \in BOOLEAN}
          \cup {H(2, "findOne", "get", <<":name">>, TRUE, "202")}
RouteApps == UNION {{App(<<one, other>>, {}, {}), App(<<other, one>>, {}, {})} :
                       one \in Ones, other \in Others}
             \cup {App(<<H(1, n, "get", <<"me">>, g, None),
                         H(2, "create", "post", <<>>, TRUE, None)>>, {}, {}) :
                      n \in {"getCurrentUser", "router"}, g \in BOOLEAN}
             \cup {[App(<<H(1, "list", "get", <<>>, TRUE, None)>>, {}, {}) EXCEPT !.guards = <<>>],
                   App(<<H(2, "me", "get", <<"me">>, FALSE, None)>>, {}, {})}

(* Request bodies. *)
Create == [H(1, "create", "post", <<>>, FALSE, None) EXCEPT !.body = "CreateDto"]
DtoField(name, decorators, optional) ==
    [file |-> 2, line |-> 10, dto |-> "CreateDto", name |-> name, decorators |-> decorators,
     optional |-> optional]
Decorations ==
    {{<<v, "">>} : v \in {"IsEmail", "IsInt", "IsNumberString", "IsUUID", "IsEnum"}}
    \cup {{}, {<<"MinLength", "8">>}, {<<"IsInt", "">>, <<"Min", "1">>, <<"IsOptional", "">>},
          {<<"IsString", "">>, <<"IsNumberString", "">>}}
InputApps == {App(<<Create>>, {DtoField("email", d, o)}, {}) : d \in Decorations, o \in BOOLEAN}

(* The request body is in the file of its controller. *)
SharedFileApps == {App(<<Create>>, {[DtoField("email", {<<"IsInt", "">>}, FALSE) EXCEPT !.file = 1]}, {})}

(* Two handlers with one key, whose bodies have a field of the same name. *)
TwinApps ==
    {App(<<Create, [Create EXCEPT !.file = 2, !.name = "createToo", !.body = "OtherDto"]>>,
         {DtoField("email", {<<"IsEmail", "">>}, FALSE),
          [DtoField("email", {<<"IsEmail", "">>}, TRUE) EXCEPT !.dto = "OtherDto", !.file = 1]}, {})}

(* Entities. *)
Member(entity, table, name, decorator) ==
    [file |-> IF entity = "User" THEN 1 ELSE 2, line |-> 10, entity |-> entity, table |-> table,
     name |-> name, decorator |-> decorator, column |-> None, nullable |-> None,
     unique |-> FALSE, target |-> "User"]
Id == Member("User", "users", "id", "PrimaryGeneratedColumn")
OrderId == Member("Order", None, "id", "PrimaryColumn")
Extras == {[Member("Order", None, "userId", "Column") EXCEPT !.unique = u, !.nullable = n] :
              u \in BOOLEAN, n \in {None, "true"}}
          \cup {[Member("Order", None, "user", "ManyToOne") EXCEPT !.column = c] : c \in {None, "owner"}}
          \cup {Member("Order", None, "user", d) : d \in {"OneToMany", "OneToOneJoin", "PrimaryColumn"}}
EntityApp(members) == App(<<H(1, "list", "get", <<>>, TRUE, None)>>, {}, members)
EntityApps == {EntityApp({Id, OrderId, [extra EXCEPT !.line = 20]}) : extra \in Extras}

(* A relation that shares its column with a member, or with an attribute's name;
   references to an entity without `id` or without a file; a table without a key,
   or two of one name; an entity that is a request body; no dependency on typeorm. *)
Owner == [Member("Order", None, "user", "ManyToOne") EXCEPT !.line = 20]
Column1(name) == [Member("Order", None, name, "Column") EXCEPT !.line = 30]
OddApps ==
    {EntityApp({Id, OrderId, Owner, Column1(name)}) : name \in {"userId", "user_id"}}
    \cup {EntityApp({[Id EXCEPT !.name = "key"], OrderId, Owner}),
           EntityApp({OrderId, Owner}),
           EntityApp({Id, Column1("total")}),
           EntityApp({Id, [OrderId EXCEPT !.table = "users"]}),
           App(<<[Create EXCEPT !.body = "User"]>>,
               {[DtoField("email", {<<"IsInt", "">>}, FALSE) EXCEPT !.dto = "User", !.file = 1]}, {Id}),
           [EntityApp({Id, OrderId}) EXCEPT !.packages = {"nestjs"}],
           [EntityApp({Id, OrderId}) EXCEPT !.packages = {"typeorm"}]}

SomeApps == RouteApps \cup InputApps \cup SharedFileApps \cup TwinApps \cup EntityApps \cup OddApps

(* app/auth/dependencies.py, app/database.py and so on. *)
Auth == 10
Database == 20
Main == 30
Models == 40
Routes == 50
Schemas == 60

(* Files keep their order, change it or share a target; the guard goes first, to
   a controller, or has no target; a file has none, or one of the skeleton's own. *)
Layouts == {<<45, 55, 5>>, <<55, 45, 45>>, <<45, 45>>, [f \in {2} |-> 45],
            <<Database, Auth, Main>>, <<Main, Schemas, Auth>>}

=============================================================================
