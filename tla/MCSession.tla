----------------------------- MODULE MCSession ------------------------------
EXTENDS Session

AllRanges == {r \in [min : PROTOCOL_MIN .. PROTOCOL_MAX, max : PROTOCOL_MIN .. PROTOCOL_MAX] :
                 r.min <= r.max}

RequestsOver(entries, ranges) ==
    {r \in [entry : entries, method : MethodSet,
            min : PROTOCOL_MIN .. PROTOCOL_MAX, max : PROTOCOL_MIN .. PROTOCOL_MAX] :
        /\ r.method \in EntryMethods(r.entry)
        /\ [min |-> r.min, max |-> r.max] \in ranges}

\* Every request with every configuration of the client.
AllRequests == RequestsOver(Entries, AllRanges)

\* The default configuration accepts every version; the server decides.
DefaultRange == {[min |-> PROTOCOL_MIN, max |-> PROTOCOL_MAX]}
DefaultRequests == RequestsOver(Entries, DefaultRange)
WebRequests == RequestsOver({"web"}, AllRanges)

\* Servers that speak exactly one version, or all of them.
OneVersionRanges == {r \in AllRanges : r.min = r.max}
=============================================================================
