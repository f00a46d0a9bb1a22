-------------------------------- MODULE Host --------------------------------
(***************************************************************************)
(* Where a service is: the setters and getters of a Host, on the record of *)
(* its HostPvt.  Three getters are const and write: a value that was never *)
(* set, or set to nothing, becomes its default when it is first read.      *)
(***************************************************************************)
EXTENDS Integers, TLC

CONSTANTS
  Blank,   \* the empty text
  Trimmed  \* Trimmed[t]: the text t without the spaces around it

Texts == DOMAIN Trimmed

ASSUME TrimmedAssumption ==
  /\ {Blank, "http", "localhost", "/"} \subseteq Texts
  /\ Trimmed \in [Texts -> Texts]
  /\ Trimmed[Blank] = Blank
  /\ Blank \notin {Trimmed["http"], Trimmed["/"], "localhost"}

(* QVariantHash::insert of every entry of a hash. *)
insert(all, new) ==
  [k \in DOMAIN all \cup DOMAIN new |-> IF k \in DOMAIN new THEN new[k] ELSE all[k]]

(* A record of all properties of a host. *)
IsHost(h) ==
  /\ h = [protocol |-> h.protocol, hostName |-> h.hostName, port |-> h.port,
          headers |-> h.headers, basePath |-> h.basePath]
  /\ {h.protocol, h.hostName, h.basePath} \subseteq Texts
  /\ h.port \in Int

HostPvt ==
  [protocol |-> "http", hostName |-> "localhost", port |-> -1, headers |-> <<>>,
   basePath |-> Blank]

-----------------------------------------------------------------------------
(* Getters: what protocol() answers, and what the others leave of the host   *)
(* before they answer its field.                                             *)

protocol(h) == IF Trimmed[h.protocol] = Blank THEN "http" ELSE h.protocol

hostName(h) == IF h.hostName = Blank THEN [h EXCEPT !.hostName = "localhost"] ELSE h

port(h) == IF h.port <= 0 THEN [h EXCEPT !.port = 80] ELSE h

basePath(h) == IF Trimmed[h.basePath] = Blank THEN [h EXCEPT !.basePath = "/"] ELSE h

(* toHash(): all properties are read.  isValid() and isEmpty() end at their  *)
(* first test, of a protocol that is never empty.                            *)
allRead(h) == basePath(port(hostName(h)))

shown(h) == [allRead(h) EXCEPT !.protocol = protocol(h)]

-----------------------------------------------------------------------------
setProtocol(h, new) == [h EXCEPT !.protocol = new]

setHostName(h, new) == [h EXCEPT !.hostName = new]

setPort(h, new) == [h EXCEPT !.port = new]

setHeaders(h, new) == [h EXCEPT !.headers = new]

(* Mutant: a header the host has already is kept. *)
addHeadersNew(h, new) == [h EXCEPT !.headers = insert(new, @)]

addHeaders(h, new) == [h EXCEPT !.headers = insert(@, new)]

setBasePath(h, new) == [h EXCEPT !.basePath = new]

(* clear(): every property is reset. *)
resetProtocol(h) == setProtocol(h, "http")

resetHostName(h) == setHostName(h, Blank)

resetPort(h) == setPort(h, -1)

resetHeaders(h) == setHeaders(h, <<>>)

resetBasePath(h) == setBasePath(h, Blank)

clear(h) == resetBasePath(resetHeaders(resetPort(resetHostName(resetProtocol(h)))))

=============================================================================
