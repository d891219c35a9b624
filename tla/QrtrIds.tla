------------------------------- MODULE QrtrIds -------------------------------
(***************************************************************************)
(* The client ids and ports that quectel-qrtr-proxy hands out.  Each has a *)
(* table of bytes, in which a place in use holds its own number and a free *)
(* one 0.  There are more ports than a byte has values: the number of port *)
(* Width is stored as 0, and the port stays free.                          *)
(***************************************************************************)
EXTENDS Naturals

CONSTANTS NumIds,    \* sizeof(client_bitmap) - 1, 239
          NumPorts,  \* sizeof(port_bitmap) - 1, 4079
          Width      \* values of a byte, 256

ASSUME TableAssumption ==
  /\ NumIds \in Nat \ {0} /\ NumPorts \in Nat /\ Width \in Nat
  /\ NumIds < Width /\ Width <= NumPorts

IdPlaces == 1..NumIds
PortPlaces == 1..NumPorts

FreeIn(bitmap) == {i \in DOMAIN bitmap : bitmap[i] = 0}

\* The first free place, 0 if there is none.
First(S) == IF S = {} THEN 0 ELSE CHOOSE i \in S : \A j \in S : i <= j

\* alloc_client_id and alloc_port_id: what is returned, and the table afterwards.
Alloc(bitmap) == First(FreeIn(bitmap))
Marked(bitmap) ==
  IF FreeIn(bitmap) = {} THEN bitmap
  ELSE [bitmap EXCEPT ![Alloc(bitmap)] = Alloc(bitmap) % Width]

\* free_client_id and free_port_id of the numbers in I: those that are in use and were
\* stored whole; place 0 of the table is never in use.
FreedAll(bitmap, I) == [i \in DOMAIN bitmap |-> IF i \in I /\ bitmap[i] = i THEN 0 ELSE bitmap[i]]

=============================================================================
