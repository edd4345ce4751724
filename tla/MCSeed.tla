------------------------------- MODULE MCSeed -------------------------------
(* A small instance of Seed: the connections of the seed have two and one  *)
(* tools, uploads use the same names in another order or repeat one.       *)
EXTENDS Seed

CONSTANTS listProducts, createOrder, listCustomers

MCMockBody == <<listProducts, createOrder>>
MCStripeBody == <<listCustomers>>
MCBodies == {MCMockBody, MCStripeBody,
             <<createOrder, listProducts>>, <<createOrder, createOrder>>}

=============================================================================
