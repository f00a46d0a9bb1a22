--------------------------- MODULE MCStartSettings ---------------------------
(***************************************************************************)
(* A release build with settings files in both paths, or in one, or none.  *)
(* The files disagree about the name and an argument; one names an         *)
(* environment file.  The command line has a key twice, in both cases of   *)
(* letters, a value with a "=" and a key without a value.                  *)
(***************************************************************************)
EXTENDS StartSettings

app == <<":", "app", "json">>
library == <<":/qapr", "application", "json">>
environment == <<":", "app", "env">>

MCFileNames == <<"app", "application">>
MCExisting == {{}, {app}, {app, library, environment}}

MCFileHost ==
  [protocol |-> "https", hostName |-> "host", port |-> 8080, headers |-> "a" :> 1]

MCContent ==
  app :> [arguments |-> "k" :> <<"settings">>,
          apr |-> [name |-> " n ", envFile |-> "file", version |-> "1", host |-> MCFileHost]]
  @@ library :> [arguments |-> "k" :> <<"library">> @@ "v" :> <<"library">>,
                 apr |-> [name |-> "n"]]

MCTrimmed ==
  [t \in {"", " ", " n ", "n", "file", "1", "2", "http", "https", "localhost", "host", "/", "/api"} |->
     IF t = " " THEN "" ELSE IF t = " n " THEN "n" ELSE t]

MCLower == [t \in {"k", "K", "l", "v", "a", "b", "c", "d", "1", "2", ""} |-> IF t = "K" THEN "k" ELSE t]

MCCommandLines ==
  {<<>>, << <<"K", "1">>, <<"l", "a", "b">>, <<"l", "c", "d">> >>, << <<"K">>, <<"l", "">>, <<"k", "2">> >>}

MCNames == {"n", " n "}
MCVersions == {"2"}

MCHosts ==
  {[protocol |-> "", hostName |-> "", port |-> 0, headers |-> "a" :> 1, basePath |-> " "],
   [protocol |-> "https", hostName |-> "host", port |-> 80, headers |-> "a" :> 2 @@ "b" :> 2,
    basePath |-> "/api"]}

=============================================================================
