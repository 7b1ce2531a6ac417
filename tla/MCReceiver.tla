------------------------------ MODULE MCReceiver ------------------------------
EXTENDS Receiver

CONSTANT Absent

\* The configurations of a record set, without the options that are absent
Partial(records) ==
  {[key \in {k \in DOMAIN r : r[k] # Absent} |-> r[key]] : r \in records}

MCFiles ==
  Partial([from_usrp : {Absent, TRUE, FALSE}, from_file : {Absent, None},
           frame_sync : {Absent, TRUE, FALSE}, viterbi27 : {Absent, FALSE},
           derandomise : {Absent, FALSE}, centre_freq : {Absent, "file"},
           access_code : {Absent, None, "file"}])
  \cup Partial([from_file : {"file"}, repeat_file : {Absent, TRUE}, to_file : {Absent, "file"},
                reed_solomon : {Absent, FALSE}])

\* To a file, with every option; and to the watcher, with few
MCCommandLines ==
  Partial([from_usrp : {Absent, TRUE}, from_file : {Absent, "cmdline"},
           to_file : {Absent, "cmdline"}, frame_sync : {Absent, TRUE},
           access_code : {Absent, "cmdline"}])
  \cup Partial([from_file : {"cmdline"}, inspect_queue : {TRUE}, access_code : {"cmdline"},
                centre_freq : {"cmdline"}, repeat_file : {TRUE}, derandomise : {TRUE},
                from_usrp : {TRUE}])
=============================================================================
