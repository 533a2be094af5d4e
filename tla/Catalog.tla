------------------------------ MODULE Catalog ------------------------------
(***************************************************************************)
(* What the indexer promises: documents are added one after the other,     *)
(* every word of a document can be found in its zone and at its place, and *)
(* the index that is published has all of them.                            *)
(***************************************************************************)
EXTENDS Naturals, Sequences

CONSTANTS BadWord, \* any word with a symbol that is not indexed
          Zones,   \* number of text zones
          Items,   \* items of the raw data, with a docId and a text for every zone
          None

VARIABLES docs,      \* documents added, in order
          content,   \* where every word is found
          published  \* the same, by all items of the index in place

\* The words of an item that is the d-th document; all counts from 0.
Occurrences(item, d) ==
  UNION {{[doc |-> d, tok |-> item.text[z][k], zone |-> z, pos |-> k - 1] :
            k \in {j \in DOMAIN item.text[z] : item.text[z][j] # BadWord}} : z \in 1 .. Zones}

Init == docs = <<>> /\ content = {} /\ published = None

Add(item) == /\ docs' = Append(docs, item.docId)
             /\ content' = content \cup Occurrences(item, Len(docs))
             /\ UNCHANGED published

\* The raw data is faulty: nothing is published, and the words of the item that
\* is no document may stay.
Fail(item) == /\ content' \in {content, content \cup Occurrences(item, Len(docs))}
              /\ UNCHANGED <<docs, published>>

Publish == /\ published' = content
           /\ UNCHANGED <<docs, content>>

Next == Publish \/ \E item \in Items : Add(item) \/ Fail(item)

Spec == Init /\ [][Next]_<<docs, content, published>>
=============================================================================
