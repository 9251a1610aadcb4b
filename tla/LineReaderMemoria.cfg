\* Three slots, every type of storage the code tells apart, lost slots up to
\* one past the end of memoria, a block nested in another.
SPECIFICATION ASpec
CONSTANTS
    Nombres = {x, y, z}
    Tipos = {"float", "char"}
    MaxNumero = 1
    Numeros <- MCNumeros
    Caracteres = {c0}
    Literales = {1, c0}
    Cero = 0
    CarNulo = c0
    Operadores = {}
    Aritmetica <- MCAritmetica
    Conversion <- MCConversion
    Capacidad = 3
    Indeterminado = Indeterminado
    Nulo = Nulo
    MaxNumVariables = 3
    MaxLlaves = 2
SYMMETRY SimetriaNombres
INVARIANTS
    TypeOK
    MemoriaCoherente
    MarcasAcotadas
PROPERTIES
    ImplementaVarStack
    MuerteConCausa
    HuecosHastaLimpiar
    AmbitoRestaurado
CHECK_DEADLOCK FALSE
