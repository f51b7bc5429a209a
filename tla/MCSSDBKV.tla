------------------------------ MODULE MCSSDBKV ------------------------------
EXTENDS SSDBKV

Request(op, pairs) ==
  [op |-> op, pairs |-> [i \in DOMAIN pairs |-> [key |-> pairs[i][1], val |-> pairs[i][2]]]]

MCRequests ==
  {Request("set", <<<<1, 2>>>>), Request("set", <<<<1, Text>>>>), Request("set", <<<<Empty, 1>>>>),
   Request("del", <<<<TooLong, NoVal>>>>),
   Request("setnx", <<<<1, 0>>>>), Request("getset", <<<<1, 0>>>>),
   Request("del", <<<<1, NoVal>>>>), Request("incr", <<<<1, -2>>>>), Request("incr", <<<<Empty, 0>>>>),
   Request("get", <<<<1, NoVal>>>>),
   Request("multi_set", <<<<1, 1>>, <<2, 1>>>>), Request("multi_set", <<<<2, 0>>, <<Empty, 1>>>>),
   Request("multi_del", <<<<1, NoVal>>, <<Empty, NoVal>>>>)}
=============================================================================
