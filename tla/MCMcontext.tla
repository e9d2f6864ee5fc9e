----------------------------- MODULE MCMcontext -----------------------------
(* Requests of every format for one service method that makes a few calls. *)
EXTENDS RequestBinding

\* Targets of bindings: nested structs behind pointers, slices and arrays;
\* times and files; maps; required fields.
Nested == Struct("",
  <<Field("int8", "a"),
    [Field("string", "b") EXCEPT !.default = "7"],
    Pointer(Struct("s", <<Field("uint8", "u"), Pointer(Field("string", "t"))>>)),
    Slice("l", "int8"),
    Array("r", "uint8", 2),
    [Struct("in", <<Field("bool", "g")>>) EXCEPT !.anonymous = TRUE],
    Field("string", Ignored)>>)

Times == Struct("",
  <<Field("unix", "a"), Field("time", "b"), Field("duration", "t"), Field("float", "u"),
    Field("chan", "g")>>)

Files == Struct("",
  <<Field("string", "b"), Pointer(Field("file", "f")), Slice("l", "file"), Field("int8", "a")>>)

Needed == Struct("", <<[Field("int8", "a") EXCEPT !.required = TRUE], Field("string", "b")>>)

MapOf(elem) == [Field("map", "") EXCEPT !.elem = elem]

NoValues == << >>
Plain == [method |-> "GET", format |-> "none", sound |-> TRUE, parses |-> TRUE, valid |-> TRUE,
          message |-> FALSE, fields |-> NoValues, files |-> NoValues, query |-> NoValues,
          header |-> NoValues, params |-> NoValues, accept |-> <<>>, target |-> Nested]

Fits == [a |-> <<"7">>, u |-> <<"300">>, l |-> <<"7", "-7">>, g |-> <<"true">>]
Nests == [u |-> <<"7">>, t |-> <<"x">>, r |-> <<"7", "300">>, g |-> <<"">>]
Slices == [t |-> <<"x">>, l |-> <<"7", "300">>, r |-> <<"7", "7">>]

GetRequests == {
  [Plain EXCEPT !.query = Fits @@ [callback |-> <<"cb">>], !.accept = <<"xml", "json">>],
  [Plain EXCEPT !.query = Nests, !.header = [s |-> <<"7">>], !.accept = <<"text/*", "yaml">>],
  [Plain EXCEPT !.query = [a |-> <<"">>, b |-> <<"2024">>, t |-> <<"5s">>], !.target = Times],
  [Plain EXCEPT !.query = [b |-> <<"2024">>, t |-> <<"">>], !.params = [a |-> "7", g |-> "7"],
                !.target = Times, !.parses = FALSE, !.accept = <<"json+", "*/*">>],
  [Plain EXCEPT !.method = "HEAD", !.query = Slices, !.accept = <<"html">>]}

PostRequests == {
  [Plain EXCEPT !.method = "POST", !.format = "json"],
  [Plain EXCEPT !.method = "POST", !.format = "xml", !.valid = FALSE, !.target = MapOf("nil")],
  [Plain EXCEPT !.method = "POST", !.format = "protobuf", !.query = Fits, !.target = MapOf("nil"),
                !.message = TRUE],
  [Plain EXCEPT !.method = "POST", !.format = "form", !.fields = Fits, !.query = Slices,
                !.target = MapOf("text"), !.parses = FALSE],
  [Plain EXCEPT !.method = "POST", !.format = "form", !.fields = [a |-> <<"7">>],
                !.query = [b |-> <<"x">>], !.params = [a |-> "7"], !.target = Needed]}

Multiparts == {
  [Plain EXCEPT !.method = "POST", !.format = "multipart", !.sound = sound,
                !.fields = [a |-> <<"7">>, b |-> <<"x">>], !.query = [a |-> <<"300">>],
                !.files = files, !.target = Files] :
    sound \in BOOLEAN, files \in {[f |-> <<1>>, l |-> <<1, 2>>]}} \cup
  {[Plain EXCEPT !.method = "POST", !.format = "multipart", !.fields = [b |-> <<"x">>],
                 !.files = [a |-> <<1>>], !.target = Files, !.parses = FALSE,
                 !.message = TRUE]}

AllRequests == GetRequests \cup PostRequests \cup Multiparts

\* "json+" is longer than the offer "json".
Spellings == [json |-> <<"a", "j">>, xml |-> <<"a", "x">>, yaml |-> <<"a", "y">>,
              html |-> <<"t", "h">>] @@ ("text/*" :> <<"t", "*">>) @@ ("*/*" :> <<"*">>)
             @@ ("json+" :> <<"a", "j", "p">>)

SomeOffers == {<<"json", "xml">>, <<"yaml", "html">>}
SomeCodes == {99, 200, 204, 302}
SomeKinds == {"json", "jsonp", "reader", "redirect"}
OneSize == {1}
=============================================================================
