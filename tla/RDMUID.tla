------------------------------- MODULE RDMUID -------------------------------
(***************************************************************************)
(* RDM unique identifiers (src/src/rdm.cpp, src/src/rdm.hpp): 48 bits,     *)
(* here three words of 16, <<manufacturer, high, low>>.                    *)
(***************************************************************************)
EXTENDS Integers, Sequences

ToWord(high, low) == 256 * high + low

Byte == 0 .. 255
Word == {ToWord(high, low) : high, low \in Byte}

\* The bytes of a word; variant: the mask & 0xff is missing.
High(w)        == w \div 256
LowUnmasked(w) == w
Low(w)         == w % 256
Bytes(w)       == <<High(w), Low(w)>>

getUID(data) == <<ToWord(data[1], data[2]), ToWord(data[3], data[4]), ToWord(data[5], data[6])>>

writeUID(uid) ==
  <<High(uid[1]), Low(uid[1]), High(uid[2]), Low(uid[2]), High(uid[3]), Low(uid[3])>>

RDM_UID_BROADCAST     == <<65535, 65535, 65535>>
RDM_UID_MFR_BROADCAST == <<0, 65535, 65535>>
RDM_UID_MFR           == 31344

\* high and low are the words of the hash of the device string.
generateUID(high, low) ==
  <<RDM_UID_MFR, high, IF high = 0 /\ low = 65535 THEN 65534 ELSE low>>

\* No answer comes to a message for all devices, or for all of a manufacturer.
hasRx(dest) == dest # RDM_UID_BROADCAST /\ ~(dest[2] = 65535 /\ dest[3] = 65535)

\* RDM_UID_MFR << 4 lies within the bits of RDM_UID_MFR_BROADCAST.
Accepts(uid, dest) == dest \in {uid, RDM_UID_BROADCAST, RDM_UID_MFR_BROADCAST}

=============================================================================
