---------------------------- MODULE ConfigReader ----------------------------
(***************************************************************************)
(* The binary configuration that a management server sends, and how the     *)
(* management client extracts one value from it (pkg/mgmapi/config_reader). *)
(* The data is a sequence of 32-bit words; an offset is the index of a word. *)
(* TLC's integers confine words to 31 bits, so entry types stay below 8.     *)
(* The character encoding around the words is left out.                     *)
(***************************************************************************)
EXTENDS Integers, Sequences, SequencesExt

Magic == <<1313096259, 1330529842>>  \* NDBCONF2
HeaderWords == 9
SectionHeadWords == 3

TypeInt == 1
TypeString == 2
TypeInt64 == 4
KeySpace == 2^28

\* Section types.
NDB == 1
API == 2
MGM == 3
System == 6

\* Parameters, by the ids of mgmapi_config_parameters.h.
ConfigGeneration == 2
NodeId == 3
Nodegroup == 185
NoTables == 102
NoAttributes == 103
NoOps == 107
TransBufferMem == 111
DataMemory == 112
IndexMem == 113
NoOrderedIndexes == 149
NoUniqueHashIndexes == 150
RedoBuffer == 156
LongSignalBuffer == 157
DiskPageBufferMemory == 160
Sga == 198
NoRedologParts == 632
TransactionMemory == 667

\* Values: what Go's configValue interface holds.  A uint64 keeps its two words.
Nil == [type |-> "nil"]
Uint32(w) == [type |-> "uint32", v |-> w]
Uint64(high, low) == [type |-> "uint64", v |-> <<high, low>>]
String(words) == [type |-> "string", v |-> words]

-----------------------------------------------------------------------------
(* Reading *)

BadEntry == [ok |-> FALSE]

EntryAt(key, value, next) == [ok |-> TRUE, key |-> key, value |-> value, next |-> next]

\* Byte b of a word, from the most significant one.
Byte(word, b) == (word \div 256^(3 - b)) % 256

\* The string at off: its length in bytes with the terminating null, then the
\* bytes, padded to a whole number of words.
readString(data, key, off, limit) ==
    LET strLen == data[off]
        padded == (strLen + 3) \div 4
        last   == off + 1 + (strLen - 1) \div 4
    IN  IF \/ off > limit
           \/ strLen = 0
           \/ padded > limit - off
           \/ Byte(data[last], (strLen - 1) % 4) # 0
        THEN BadEntry
        ELSE EntryAt(key, String(SubSeq(data, off + 1, off + padded)), off + padded + 1)

\* The entry at off: a word with its type and key, then its value.
readEntry(data, off, limit) ==
    LET type == data[off] \div KeySpace
        key  == data[off] % KeySpace
    IN  CASE off > limit -> BadEntry
          [] off <= limit /\ type = TypeInt ->
                IF off + 1 > limit THEN BadEntry
                ELSE EntryAt(key, Uint32(data[off + 1]), off + 2)
          [] off <= limit /\ type = TypeInt64 ->
                IF off + 2 > limit THEN BadEntry
                ELSE EntryAt(key, Uint64(data[off + 1], data[off + 2]), off + 3)
          [] off <= limit /\ type = TypeString -> readString(data, key, off + 1, limit)
          [] OTHER -> BadEntry

\* The loop over the entries of a section, which ends as soon as the value (and
\* in a node section the node id) is found.  An entry takes a word at least, so
\* that more entries than words are an error after the last word.
readEntries(data, off, limit, numOfEntries, isNodesSection, configKey) ==
    LET start == [ok |-> TRUE, off |-> off, value |-> Nil, found |-> FALSE,
                  node |-> 0, idFound |-> ~isNodesSection]
        next(s) ==
            LET e    == readEntry(data, s.off, limit)
                isId == isNodesSection /\ e.key = NodeId
            IN  IF ~e.ok \/ (isId /\ e.value.type # "uint32") THEN [s EXCEPT !.ok = FALSE]
                ELSE [s EXCEPT !.off = e.next,
                               !.value = IF e.key = configKey THEN e.value ELSE @,
                               !.found = @ \/ e.key = configKey,
                               !.node = IF isId THEN e.value.v ELSE @,
                               !.idFound = @ \/ isId]
        bound == IF numOfEntries > limit - off + 2 THEN limit - off + 2 ELSE numOfEntries
        read[n \in Nat] ==
            IF n = 0 THEN start
            ELSE LET s == read[n - 1]
                 IN  IF ~s.ok \/ (s.found /\ s.idFound) THEN s ELSE next(s)
    IN  read[bound]

\* One section.  st has the offset, the value so far, and whether reading may
\* stop; a section of another type is skipped.
readEntryFromSection(data, isNodesSection, sectionType, nodeIdFilter, configKey, st) ==
    LET length == data[st.off]
        end    == st.off + length - 1
        s      == readEntries(data, st.off + SectionHeadWords, end, data[st.off + 1],
                              isNodesSection, configKey)
        after  == [st EXCEPT !.off = end + 1]
    IN  IF st.off + 2 > Len(data) \/ length < SectionHeadWords \/ end > Len(data)
        THEN [st EXCEPT !.ok = FALSE]
        ELSE IF data[st.off + 2] # sectionType THEN after
        ELSE IF ~s.ok \/ ~s.idFound THEN [st EXCEPT !.ok = FALSE]
        ELSE IF ~isNodesSection
             THEN [after EXCEPT !.value = IF s.found THEN s.value ELSE @,
                                !.stop = sectionType = System]
        ELSE IF nodeIdFilter # 0 /\ nodeIdFilter # s.node THEN after
        ELSE [after EXCEPT !.value = IF s.found THEN s.value ELSE @, !.stop = TRUE]

\* The value of configKey for a node (0: the first node of the type), or Nil for
\* an error.  The result of a default section never stops the reading.
readConfig(data, sectionType, fromNodeId, configKey) ==
    LET nodes    == data[6] + data[7] + data[8]
        sections == data[5] + 1 + nodes
        start == [ok |-> TRUE, off |-> HeaderWords + 1, value |-> Nil, stop |-> FALSE]
        read[n \in Nat] ==
            IF n = 0 THEN start
            ELSE LET st == read[n - 1]
                     r  == readEntryFromSection(data, n > data[5] + 1, sectionType,
                                                fromNodeId, configKey, st)
                 IN  IF ~st.ok \/ st.stop THEN st
                     ELSE IF n <= data[5] THEN [r EXCEPT !.stop = FALSE] ELSE r
        last  == read[sections]
    IN  IF \/ Len(data) < HeaderWords
           \/ SubSeq(data, 1, 2) # Magic
           \/ data[3] # Len(data)
           \/ data[4] # 2
           \/ sections + data[9] > (Len(data) - HeaderWords) \div SectionHeadWords
        THEN Nil
        ELSE IF last.ok /\ last.stop THEN last.value ELSE Nil

\* The type is the one in the reply, so it is checked; Nil is an error.
configValueAsUint32(value) == IF value.type = "uint32" THEN value ELSE Nil
configValueAsUint64(value) == IF value.type = "uint64" THEN value ELSE Nil

-----------------------------------------------------------------------------
(* What a management server sends: a configuration has default sections, a  *)
(* system section and node sections, each with a type and a sequence of      *)
(* entries, communication sections, and a checksum at the end.               *)

PackEntry(e) ==
    CASE e.value.type = "uint32" -> <<TypeInt * KeySpace + e.key, e.value.v>>
      [] e.value.type = "uint64" -> <<TypeInt64 * KeySpace + e.key>> \o e.value.v
      [] e.value.type = "string" -> <<TypeString * KeySpace + e.key, 4 * Len(e.value.v)>> \o e.value.v

PackSection(s) ==
    LET entries == FlattenSeq([i \in DOMAIN s.entries |-> PackEntry(s.entries[i])])
    IN  <<SectionHeadWords + Len(entries), Len(s.entries), s.type>> \o entries

Pack(c) ==
    LET sections == c.defaults \o <<c.system>> \o c.nodes \o c.comm
        body     == FlattenSeq([i \in DOMAIN sections |-> PackSection(sections[i])]) \o <<0>>
        count(t) == Len(SelectSeq(c.nodes, LAMBDA s : s.type = t))
    IN  Magic \o <<HeaderWords + Len(body), 2, Len(c.defaults)>>
        \o <<count(NDB), count(API), count(MGM), Len(c.comm)>> \o body

\* What a configuration says of configKey: the node's own entry, or else the
\* default of its type.
ValuesOf(section, key) == {section.entries[i].value : i \in
                            {j \in DOMAIN section.entries : section.entries[j].key = key}}

Lookup(c, sectionType, fromNodeId, key) ==
    LET nodes == SelectSeq(c.nodes, LAMBDA s : s.type = sectionType /\
                    (fromNodeId = 0 \/ Uint32(fromNodeId) \in ValuesOf(s, NodeId)))
        defaults == UNION {ValuesOf(c.defaults[i], key) :
                            i \in {j \in DOMAIN c.defaults : c.defaults[j].type = sectionType}}
        own == IF sectionType = System THEN ValuesOf(c.system, key)
               ELSE IF nodes = <<>> THEN {} ELSE ValuesOf(nodes[1], key)
    IN  IF sectionType # System /\ nodes = <<>> THEN Nil
        ELSE IF own # {} THEN CHOOSE v \in own : TRUE
        ELSE IF defaults # {} THEN CHOOSE v \in defaults : TRUE
        ELSE Nil
=============================================================================
