------------------------------- MODULE MCJudy -------------------------------
EXTENDS JudyProps
I(a, b, c, d) == ((a * BASE + b) * BASE + c) * BASE + d
MCLeaf  == <<5, 6, 4>>
MCImmed == <<3, 1, 1>>
Program(keys, batches, shortages) == [keys |-> keys, batches |-> batches, shortages |-> shortages]
Batch(I0, n)   == [i \in 1 .. n |-> I0 + i - 1]
Narrow == Program({I(1,1,1,0), I(1,1,1,1), I(1,1,1,5), I(1,1,2,0), I(1,2,2,1), I(2,1,1,1)},
                  {Batch(I(1,1,1,0), 5)}, {})
Deep   == Program({I(1,1,1,1), I(1,1,1,2), I(1,1,1,5), I(1,1,2,0), I(1,1,2,1), I(1,1,2,2)}, {Batch(I(1,1,1,0), 5)}, {})
Branch == Program({I(1,1,3,0), I(1,1,4,0), I(1,1,4,1), I(1,1,5,1), I(1,1,6,7), I(1,1,7,7)},
                  {<<I(1,1,1,0), I(1,1,1,1), I(1,1,2,0), I(1,1,3,0), I(1,1,4,0), I(1,1,4,1)>>}, {})
Root   == Program({I(1,1,1,0), I(1,2,2,0), I(1,3,3,0), I(1,3,4,0), I(1,4,4,1), I(2,1,5,1), I(3,1,6,2)}, {}, {})
Full   == Program({I(1,1,0,0), I(1,1,1,7), I(1,1,7,7), I(1,2,0,0)},
                  {Batch(I(1,1,0,0), 64), Batch(I(7,7,6,0), 16)}, {})
Scarce == Program({I(1,1,1,0), I(1,1,1,1), I(1,1,1,2), I(1,1,1,3), I(1,1,2,0), I(2,1,1,1)},
                  {<<I(1,1,1,0), I(1,1,1,1)>>, <<I(1,1,1,0), I(1,1,1,1), I(1,1,1,2), I(1,2,1,2), I(1,1,1,3)>>,
                   <<I(1,1,1,0), I(1,1,1,1), I(1,1,1,2), I(1,2,1,0), I(2,1,1,1)>>}, {0, 1, 2})
MCPrograms == {Narrow, Deep, Branch, Root, Full, Scarce}
=============================================================================
